---- MODULE Spec2Model ----
(***************************************************************************)
(* A model of the contest encryption and verification code of              *)
(* electionguard-rust (src/eg/src/contest_encrypted.rs).                   *)
(*                                                                         *)
(* Group arithmetic is carried out numerically in a scaled-down prime      *)
(* order subgroup of Z_p^* (p = 2q + 1).  The range proofs of eg::zk, the  *)
(* nonce derivation of eg::nonce, the ElGamal encryption of                *)
(* eg::joint_election_public_key, eg::index, eg::vec1 and eg::contest_hash *)
(* are not part of the sources at hand; they are modelled from their       *)
(* contract (a range proof verifies exactly when it was built, with a      *)
(* correct witness, for the statement it is verified against).             *)
(***************************************************************************)
EXTENDS Integers, Sequences, FiniteSets, TLC

(***************************************************************************)
(* Bounds of the model.                                                    *)
(***************************************************************************)
\* Longest plaintext selection vector that is enumerated exhaustively.
MaxOptions == 3
\* Largest contest.selection_limit that is enumerated (beside the u8 edge).
MaxLimit == 4
\* The number of options of the contest, contest.options.len().
NumOptions == 2

(***************************************************************************)
(* Fixed parameters (scaled down): q prime, p = 2q + 1 prime, g of order q.*)
(***************************************************************************)
q == 281
p == 2 * q + 1
g == 4
\* The secret key behind the joint election public key K = g^s mod p.
SecretKey == 5

\* u8: the type of one plaintext selection and of the num_selections
\* accumulator of ContestEncrypted::new.
U8Modulus == 2 ^ 8
\* Index::VALID_MAX_U32 = 2^31 - 1.
IndexValidMax == 2147483647

RECURSIVE ModExp(_, _, _)
\* b^e mod m by square and multiply.
ModExp(b, e, m) ==
    IF e = 0 THEN 1 % m
    ELSE LET h == ModExp(b, e \div 2, m)
             s == (h * h) % m
         IN  IF e % 2 = 1 THEN (s * b) % m ELSE s

\* The joint election public key.
K == ModExp(g, SecretKey, p)

\* Index::from_one_based_index: Ok for 1..=VALID_MAX_U32, Err otherwise.
Index_from_one_based_index(j) == j >= 1 /\ j <= IndexValidMax

\* nonce::encrypted: a deterministic function of the primary nonce, the
\* contest index and the option index into Z_q.
nonce(primary_nonce, contest_index, o_idx) ==
    (97 * primary_nonce + 53 * contest_index + 31 * o_idx + 7 * o_idx * o_idx + 11) % q

\* PublicKey::encrypt_with: (g^xi mod p, K^xi * g^m mod p).
encrypt_with(xi, m) ==
    [alpha |-> ModExp(g, xi, p),
     beta  |-> (ModExp(K, xi, p) * ModExp(g, m, p)) % p]

\* contest_hash::contest_hash: a binding hash of the contest index and the
\* ordered selection ciphertexts.
contest_hash(contest_index, selection) ==
    <<"contest_hash", contest_index, selection>>

(***************************************************************************)
(* zk::ProofRange.  A proof records the statement it was built for (the    *)
(* ciphertext and big_l), the csprng draw it used, and whether the prover  *)
(* held a witness: the nonce of the ciphertext and a plaintext small_l in  *)
(* 0..big_l.                                                               *)
(***************************************************************************)
ProofRange_new(rnd, ct, xi, small_l, big_l) ==
    [alpha |-> ct.alpha,
     beta  |-> ct.beta,
     big_l |-> big_l,
     rnd   |-> rnd,
     sound |-> /\ small_l <= big_l
               /\ ct.alpha = ModExp(g, xi, p)
               /\ ct.beta = (ModExp(K, xi, p) * ModExp(g, small_l, p)) % p]

ProofRange_verify(proof, ct, big_l) ==
    /\ proof.big_l = big_l
    /\ proof.alpha = ct.alpha
    /\ proof.beta = ct.beta
    /\ proof.sound

\* Ciphertext::proof_ballot_correctness: a range proof for 0..1.
proof_ballot_correctness(rnd, ct, selected, xi) ==
    ProofRange_new(rnd, ct, xi, IF selected THEN 1 ELSE 0, 1)

\* Ciphertext::verify_ballot_correctness.
verify_ballot_correctness(ct, proof) == ProofRange_verify(proof, ct, 1)

\* Whether ProofRange::new refuses (panics on) a witness outside 0..big_l.
\* The contract leaves the outcome of this caller error open: `strict` picks
\* between a panic and a proof that cannot verify.
ProofRange_new_panics(strict, small_l, big_l) == strict /\ small_l > big_l

\* Vec1::get: the element at a 1-based index, if there is one.
Vec1_has(v, idx) == idx >= 1 /\ idx <= Len(v)

(***************************************************************************)
(* ContestEncrypted (contest_encrypted.rs).                                *)
(***************************************************************************)
NoCiphertext == [alpha |-> 0, beta |-> 0]

\* ContestEncrypted::encrypt_selection: one (ciphertext, nonce) pair per
\* plaintext, option j (1-based) encrypted under the nonce derived for the
\* option index `j as u32` (no truncation below 2^32); the unwrap panics when
\* that is no index.
encrypt_selection(primary_nonce, contest_index, vote) ==
    [panic |-> \E j \in 1..Len(vote) : ~Index_from_one_based_index(j),
     vote  |-> [j \in 1..Len(vote) |->
                  LET xi == nonce(primary_nonce, contest_index, j)
                  IN  [ct |-> encrypt_with(xi, vote[j]), nonce |-> xi]]]

(***************************************************************************)
(* The loops below run over up to 2^8 elements.  Each is written as the    *)
(* iterations lo..hi applied, in order, to the accumulator acc; a range is *)
(* split in two only to keep the evaluation stack shallow: the elements    *)
(* are taken in from the first to the last exactly as the loop does.  The  *)
(* test `left = left` changes nothing: it makes TLC, which evaluates a LET *)
(* on demand, compute the first half before it enters the second.          *)
(***************************************************************************)
RECURSIVE sum_selection_nonce_loop(_, _, _, _)
\* The iterations lo..hi of the loop of sum_selection_nonce_vector.
sum_selection_nonce_loop(sel, acc, lo, hi) ==
    IF lo > hi THEN acc
    ELSE IF lo = hi
    THEN [ct |-> [alpha |-> (acc.ct.alpha * sel[lo].ct.alpha) % p,
                  beta  |-> (acc.ct.beta * sel[lo].ct.beta) % p],
          nonce |-> (acc.nonce + sel[lo].nonce) % q]
    ELSE LET mid == (lo + hi) \div 2
             left == sum_selection_nonce_loop(sel, acc, lo, mid)
         IN  IF left = left THEN sum_selection_nonce_loop(sel, left, mid + 1, hi) ELSE acc

\* A sum_selection_nonce_vector that does not skip the first element, which
\* then counts twice.
sum_selection_nonce_vector_no_skip(sel) ==
    IF Len(sel) = 0 THEN [panic |-> TRUE, ct |-> NoCiphertext, nonce |-> 0]
    ELSE LET s == sum_selection_nonce_loop(sel,
                      [ct |-> sel[1].ct, nonce |-> sel[1].nonce], 1, Len(sel))
         IN  [panic |-> FALSE, ct |-> s.ct, nonce |-> s.nonce]

\* ContestEncrypted::sum_selection_nonce_vector: indexing element 0 of an
\* empty slice panics; the loop skips the first element.
sum_selection_nonce_vector(sel) ==
    IF Len(sel) = 0 THEN [panic |-> TRUE, ct |-> NoCiphertext, nonce |-> 0]
    ELSE LET s == sum_selection_nonce_loop(sel,
                      [ct |-> sel[1].ct, nonce |-> sel[1].nonce], 2, Len(sel))
         IN  [panic |-> FALSE, ct |-> s.ct, nonce |-> s.nonce]

RECURSIVE sum_selection_loop(_, _, _, _)
\* The iterations lo..hi of the loop of sum_selection_vector.
sum_selection_loop(selection, acc, lo, hi) ==
    IF lo > hi THEN acc
    ELSE IF lo = hi
    THEN [alpha |-> (acc.alpha * selection[lo].alpha) % p,
          beta  |-> (acc.beta * selection[lo].beta) % p]
    ELSE LET mid == (lo + hi) \div 2
             left == sum_selection_loop(selection, acc, lo, mid)
         IN  IF left = left THEN sum_selection_loop(selection, left, mid + 1, hi) ELSE acc

\* A sum_selection_vector that multiplies the alphas only.
sum_selection_vector_alpha_only(selection) ==
    IF Len(selection) = 0 THEN [panic |-> TRUE, ct |-> NoCiphertext]
    ELSE [panic |-> FALSE,
          ct |-> [alpha |-> sum_selection_loop(selection, selection[1], 2, Len(selection)).alpha,
                  beta  |-> selection[1].beta]]

\* ContestEncrypted::sum_selection_vector: indexing element 0 of an empty
\* slice panics; the loop skips the first element.
sum_selection_vector(selection) ==
    IF Len(selection) = 0 THEN [panic |-> TRUE, ct |-> NoCiphertext]
    ELSE [panic |-> FALSE,
          ct |-> sum_selection_loop(selection, selection[1], 2, Len(selection))]

RECURSIVE num_selections_loop(_, _, _, _)
\* The iterations lo..hi of
\* `pt_vote.vote.iter().for_each(|v| num_selections += v)` on a u8
\* accumulator: the sum wraps, and `overflow` tells whether an addition
\* overflowed.
num_selections_loop(vote, acc, lo, hi) ==
    IF lo > hi THEN acc
    ELSE IF lo = hi
    THEN [value |-> (acc.value + vote[lo]) % U8Modulus,
          overflow |-> acc.overflow \/ acc.value + vote[lo] >= U8Modulus]
    ELSE LET mid == (lo + hi) \div 2
             left == num_selections_loop(vote, acc, lo, mid)
         IN  IF left = left THEN num_selections_loop(vote, left, mid + 1, hi) ELSE acc

num_selections_of(vote) ==
    num_selections_loop(vote, [value |-> 0, overflow |-> FALSE], 1, Len(vote))

\* Ballot correctness proofs that all take the plaintext of the first option.
ballot_correctness_proofs_first_bit(rnd, selection_and_nonce, vote) ==
    [i \in 1..Len(selection_and_nonce) |->
        proof_ballot_correctness(rnd + i - 1, selection_and_nonce[i].ct,
            vote[1] = 1, selection_and_nonce[i].nonce)]

\* The ballot correctness proofs of ContestEncrypted::new, in the order of
\* selection_and_nonce; proof i draws from the csprng after proof i - 1.
ballot_correctness_proofs(rnd, selection_and_nonce, vote) ==
    [i \in 1..Len(selection_and_nonce) |->
        proof_ballot_correctness(rnd + i - 1, selection_and_nonce[i].ct,
            vote[i] = 1, selection_and_nonce[i].nonce)]

\* ContestEncrypted::proof_selection_limit.
proof_selection_limit(rnd, strict, selection, num_selections, selection_limit) ==
    LET combined == sum_selection_nonce_vector(selection)
    IN  IF combined.panic
        THEN [panic |-> TRUE, at |-> "sum_selection_nonce_vector",
              combined |-> combined, proof |-> <<>>]
        ELSE IF ProofRange_new_panics(strict, num_selections, selection_limit)
        THEN [panic |-> TRUE, at |-> "ProofRange::new",
              combined |-> combined, proof |-> <<>>]
        ELSE [panic |-> FALSE, at |-> "",
              combined |-> combined,
              proof |-> ProofRange_new(rnd, combined.ct, combined.nonce,
                                       num_selections, selection_limit)]

NoContest == [selection |-> <<>>, contest_hash |-> <<>>,
              proof_ballot_correctness |-> <<>>, proof_selection_limit |-> <<>>]

\* What a call of ContestEncrypted::new leaves behind: whether it returned
\* or panicked (and where), the ContestEncrypted it returned, and a trace of
\* the calls it made (the length handed to sum_selection_nonce_vector, -1 if
\* it was never called; what that call returned; whether ProofRange::new was
\* entered for the selection limit).
NewOutcome(outcome, at, ce, sum_arg_len, combined, selection_and_nonce, range_proof_entered) ==
    [outcome |-> outcome, at |-> at, ce |-> ce, sum_arg_len |-> sum_arg_len,
     combined |-> combined, selection_and_nonce |-> selection_and_nonce,
     range_proof_entered |-> range_proof_entered]

NoCombined == [panic |-> FALSE, ct |-> NoCiphertext, nonce |-> 0]

\* A new that draws the encryption nonces with the help of the csprng.
ContestEncrypted_new_csprng_nonce(rnd, overflow_checks, strict, primary_nonce, selection_limit, contest_index, vote) ==
    LET enc == encrypt_selection(primary_nonce + rnd, contest_index, vote)
        selection_and_nonce == enc.vote
        selection == [i \in 1..Len(selection_and_nonce) |-> selection_and_nonce[i].ct]
        hash == contest_hash(contest_index, selection)
        proofs == ballot_correctness_proofs(rnd, selection_and_nonce, vote)
        num == num_selections_of(vote)
        lim == proof_selection_limit(rnd + Len(selection_and_nonce), strict,
                   selection_and_nonce, num.value, selection_limit)
    IN  IF enc.panic
        THEN NewOutcome("panic", "from_one_based_index", NoContest, -1, NoCombined,
                        selection_and_nonce, FALSE)
        ELSE IF num.overflow /\ overflow_checks
        THEN NewOutcome("panic", "num_selections", NoContest, -1, NoCombined,
                        selection_and_nonce, FALSE)
        ELSE IF lim.panic
        THEN NewOutcome("panic", lim.at, NoContest, Len(selection_and_nonce),
                        lim.combined, selection_and_nonce,
                        lim.at = "ProofRange::new")
        ELSE NewOutcome("ok", "",
                        [selection |-> selection,
                         contest_hash |-> hash,
                         proof_ballot_correctness |-> proofs,
                         proof_selection_limit |-> lim.proof],
                        Len(selection_and_nonce), lim.combined, selection_and_nonce, TRUE)

\* ContestEncrypted::new.  overflow_checks is the build's handling of the
\* u8 addition (panic when set, wrap otherwise).
ContestEncrypted_new(rnd, overflow_checks, strict, primary_nonce, selection_limit, contest_index, vote) ==
    LET enc == encrypt_selection(primary_nonce, contest_index, vote)
        selection_and_nonce == enc.vote
        selection == [i \in 1..Len(selection_and_nonce) |-> selection_and_nonce[i].ct]
        hash == contest_hash(contest_index, selection)
        proofs == ballot_correctness_proofs(rnd, selection_and_nonce, vote)
        num == num_selections_of(vote)
        lim == proof_selection_limit(rnd + Len(selection_and_nonce), strict,
                   selection_and_nonce, num.value, selection_limit)
    IN  IF enc.panic
        THEN NewOutcome("panic", "from_one_based_index", NoContest, -1, NoCombined,
                        selection_and_nonce, FALSE)
        ELSE IF num.overflow /\ overflow_checks
        THEN NewOutcome("panic", "num_selections", NoContest, -1, NoCombined,
                        selection_and_nonce, FALSE)
        ELSE IF lim.panic
        THEN NewOutcome("panic", lim.at, NoContest, Len(selection_and_nonce),
                        lim.combined, selection_and_nonce,
                        lim.at = "ProofRange::new")
        ELSE NewOutcome("ok", "",
                        [selection |-> selection,
                         contest_hash |-> hash,
                         proof_ballot_correctness |-> proofs,
                         proof_selection_limit |-> lim.proof],
                        Len(selection_and_nonce), lim.combined, selection_and_nonce, TRUE)

\* A verify_selection_limit that checks the proof against the limit the
\* proof itself names instead of the limit of the contest.
verify_selection_limit_own_limit(ce, selection_limit) ==
    LET combined == sum_selection_vector(ce.selection)
    IN  IF combined.panic THEN "panic"
        ELSE IF ProofRange_verify(ce.proof_selection_limit, combined.ct,
                                  ce.proof_selection_limit.big_l)
        THEN "true" ELSE "false"

\* ContestEncrypted::verify_selection_limit: "true", "false" or "panic".
verify_selection_limit(ce, selection_limit) ==
    LET combined == sum_selection_vector(ce.selection)
    IN  IF combined.panic THEN "panic"
        ELSE IF ProofRange_verify(ce.proof_selection_limit, combined.ct, selection_limit)
        THEN "true" ELSE "false"

\* A loop of verify that checks the first pair only.
verify_loop_first_only(ce, lo, hi) ==
    \/ lo > hi
    \/ /\ Index_from_one_based_index(lo)
       /\ Vec1_has(ce.proof_ballot_correctness, lo)
       /\ verify_ballot_correctness(ce.selection[lo], ce.proof_ballot_correctness[lo])

RECURSIVE verify_loop(_, _, _)
\* The iterations lo..hi of the loop of ContestEncrypted::verify over
\* selection.iter().zip(1..): FALSE when one of them returns false (the later
\* ones are then not run), TRUE when the loop runs on.
verify_loop(ce, lo, hi) ==
    IF lo > hi THEN TRUE
    ELSE IF lo = hi
    THEN /\ Index_from_one_based_index(lo)
         /\ Vec1_has(ce.proof_ballot_correctness, lo)
         /\ verify_ballot_correctness(ce.selection[lo], ce.proof_ballot_correctness[lo])
    ELSE LET mid == (lo + hi) \div 2
         IN  verify_loop(ce, lo, mid) /\ verify_loop(ce, mid + 1, hi)

\* A verify that does not check the selection limit proof.
verify_without_selection_limit(ce, selection_limit) ==
    IF ~verify_loop(ce, 1, Len(ce.selection)) THEN "false"
    ELSE IF Len(ce.selection) = 0 THEN "panic" ELSE "true"

\* Contest indices.
ContestIndices == {1, 2}

\* A verify that recomputes the contest hash and compares it.
verify_contest_hash(ce, selection_limit) ==
    IF \A ci \in ContestIndices : ce.contest_hash # contest_hash(ci, ce.selection)
    THEN "false"
    ELSE IF ~verify_loop(ce, 1, Len(ce.selection)) THEN "false"
    ELSE verify_selection_limit(ce, selection_limit)

\* ContestEncrypted::verify: "true", "false" or "panic".
verify(ce, selection_limit) ==
    IF ~verify_loop(ce, 1, Len(ce.selection)) THEN "false"
    ELSE verify_selection_limit(ce, selection_limit)

\* Ciphertext::scale: alpha and beta raised to the factor, mod p.
Ciphertext_scale(ct, factor) ==
    [alpha |-> ModExp(ct.alpha, factor, p), beta |-> ModExp(ct.beta, factor, p)]

\* A scale that leaves out the first ciphertext.
scale_skip_first(ce, factor) ==
    [selection |-> [i \in 1..(Len(ce.selection) - 1) |->
                      Ciphertext_scale(ce.selection[i + 1], factor)]]

\* ContestEncrypted::scale: the ScaledContestEncrypted of the selection
\* ciphertexts, each scaled by the factor, in their order.
scale(ce, factor) ==
    [selection |-> [i \in 1..Len(ce.selection) |->
                      Ciphertext_scale(ce.selection[i], factor)]]

(***************************************************************************)
(* The inputs that are enumerated.                                         *)
(***************************************************************************)
\* Plaintext values of one option: 0, 1 and a value that is no 0/1 vote.
Plaintexts == {0, 1, 2}
\* Primary nonces (ballot seeds) and csprng states.
PrimaryNonces == {0, 1}
CsprngStates == {0, 1}
\* Scale factors (BigUint): below q, q itself and above q.
Factors == {0, 1, 2, 3, q, q + 2}

\* Every vector of at most MaxOptions plaintexts.
ShortVotes == UNION {[1..n -> Plaintexts] : n \in 0..MaxOptions}
\* All-ones vectors whose sum is the largest u8 and one more.
LongVotes == {[i \in 1..n |-> 1] : n \in {U8Modulus - 1, U8Modulus}}
Votes == ShortVotes \cup LongVotes
\* Selection limits: 0..MaxLimit, and the two values around the u8 edge.
ShortLimits == 0..MaxLimit
EdgeLimits == {U8Modulus - 1, U8Modulus}
Limits == ShortLimits \cup EdgeLimits
\* The (pt_vote, contest.selection_limit) pairs handed to new: every short
\* vector with every short limit, the long vectors with the edge limits.
VotesAndLimits == (ShortVotes \X ShortLimits) \cup (LongVotes \X EdgeLimits)

RECURSIVE SumRange(_, _, _)
\* The sum of the elements lo..hi of a sequence of numbers, as a
\* mathematical integer.
SumRange(seq, lo, hi) ==
    IF lo > hi THEN 0
    ELSE IF lo = hi THEN seq[lo]
    ELSE SumRange(seq, lo, (lo + hi) \div 2) + SumRange(seq, (lo + hi) \div 2 + 1, hi)

SumOf(seq) == SumRange(seq, 1, Len(seq))

IsZeroOne(vote) == \A i \in 1..Len(vote) : vote[i] \in {0, 1}

(***************************************************************************)
(* State.                                                                  *)
(***************************************************************************)
VARIABLES
    pc,         \* "start", "built" (new returned), "panicked" (new panicked),
                \* "verified" (verify returned or panicked)
    inp,        \* the arguments of the call of ContestEncrypted::new
    out,        \* what that call left behind (NewOutcome)
    ce,         \* the ContestEncrypted at hand (its fields are public and it
                \* is Deserialize: it may differ from the one new returned)
    tamper,     \* how ce was changed after new returned it
    vlimit,     \* the selection_limit handed to verify
    vresult,    \* "none", or what verify did: "true", "false", "panic"
    scaled,     \* the factor and the ScaledContestEncrypted of a call of scale
    es,         \* a run of the loop of encrypt_selection (narrow index type)
    hv,         \* an HValue and the calls of Display and from_str on it
    nv          \* a NanoVec and the last call made on it

vars == <<pc, inp, out, ce, tamper, vlimit, vresult, scaled, es, hv, nv>>

\* The variables of the other components, which the calls on a
\* ContestEncrypted leave alone.
others == <<es, hv, nv>>
\* A component on which no call is made.
Idle == [pc |-> "idle"]
NoScaled == [called |-> FALSE, factor |-> 0, selection |-> <<>>]

NoInput == [vote |-> <<>>, selection_limit |-> 0, n_options |-> 0,
            contest_index |-> 0, primary_nonce |-> 0, rnd |-> 0]
NoOutcome == NewOutcome("none", "", NoContest, -1, NoCombined, <<>>, FALSE)
NoTamper == [kind |-> "none", index |-> 0]

Init ==
    /\ pc = "start"
    /\ inp = NoInput
    /\ out = NoOutcome
    /\ ce = NoContest
    /\ tamper = NoTamper
    /\ vlimit = 0
    /\ vresult = "none"
    /\ scaled = NoScaled
    /\ es = Idle
    /\ hv = Idle
    /\ nv = Idle

\* A call of ContestEncrypted::new(device, csprng, primary_nonce, contest,
\* contest_index, pt_vote).  overflow_checks and strict are not inputs but
\* the build and the range prover at hand.
New ==
    /\ pc = "start"
    /\ \E vl \in VotesAndLimits,
          contest_index \in ContestIndices, primary_nonce \in PrimaryNonces,
          rnd \in CsprngStates, overflow_checks \in BOOLEAN, strict \in BOOLEAN :
        LET vote == vl[1]
            selection_limit == vl[2]
            r == ContestEncrypted_new(rnd, overflow_checks, strict, primary_nonce,
                     selection_limit, contest_index, vote)
        IN  /\ inp' = [vote |-> vote, selection_limit |-> selection_limit,
                       n_options |-> NumOptions,
                       contest_index |-> contest_index,
                       primary_nonce |-> primary_nonce, rnd |-> rnd]
            /\ out' = r
            /\ ce' = r.ce
            /\ pc' = IF r.outcome = "ok" THEN "built" ELSE "panicked"
    /\ UNCHANGED <<tamper, vlimit, vresult, scaled>>
    /\ UNCHANGED others

(***************************************************************************)
(* A ContestEncrypted is a public, deserializable record: what reaches     *)
(* verify need not be what new returned.  After new returns, one change is *)
(* made to the record (or none) and then it is verified.  Changes are      *)
(* enumerated for the contests of at most MaxOptions options.              *)
(***************************************************************************)
CanTamper ==
    /\ pc = "built"
    /\ tamper = NoTamper
    /\ Len(ce.selection) <= MaxOptions

\* Values that replace an alpha or a beta.
ReplacementValues(v) == {1, (v * g) % p} \ {v}

\* Ballot correctness proofs that new produces for this plaintext vector,
\* in this contest and in the other contests of the ballot: proofs for the
\* other options, and for the same option of another contest.
ForeignBallotProofs ==
    {proof_ballot_correctness(0,
         encrypt_with(nonce(inp.primary_nonce, ci, j), inp.vote[j]), inp.vote[j] = 1,
         nonce(inp.primary_nonce, ci, j)) :
       ci \in ContestIndices, j \in 1..Len(inp.vote)}

\* Selection limit proofs produced by new for other contests: another
\* contest index, another selection limit, another plaintext vector.
ForeignLimitProofs ==
    LET calls == {ContestEncrypted_new(0, FALSE, FALSE, inp.primary_nonce, limit, ci, vote) :
                    limit \in {inp.selection_limit, inp.selection_limit + 1},
                    ci \in ContestIndices,
                    vote \in {inp.vote, <<1>>}}
    IN  {c.ce.proof_selection_limit : c \in {d \in calls : d.outcome = "ok"}}

TamperAlpha ==
    /\ CanTamper
    /\ \E i \in 1..Len(ce.selection) : \E v \in ReplacementValues(ce.selection[i].alpha) :
        /\ ce' = [ce EXCEPT !.selection[i].alpha = v]
        /\ tamper' = [kind |-> "alpha", index |-> i]
    /\ UNCHANGED <<pc, inp, out, vlimit, vresult, scaled>>
    /\ UNCHANGED others

TamperBeta ==
    /\ CanTamper
    /\ \E i \in 1..Len(ce.selection) : \E v \in ReplacementValues(ce.selection[i].beta) :
        /\ ce' = [ce EXCEPT !.selection[i].beta = v]
        /\ tamper' = [kind |-> "beta", index |-> i]
    /\ UNCHANGED <<pc, inp, out, vlimit, vresult, scaled>>
    /\ UNCHANGED others

SubstituteBallotProof ==
    /\ CanTamper
    /\ \E i \in 1..Len(ce.proof_ballot_correctness) : \E f \in ForeignBallotProofs :
        /\ ce' = [ce EXCEPT !.proof_ballot_correctness[i] = f]
        /\ tamper' = [kind |-> "ballot_proof", index |-> i]
    /\ UNCHANGED <<pc, inp, out, vlimit, vresult, scaled>>
    /\ UNCHANGED others

SubstituteLimitProof ==
    /\ CanTamper
    /\ \E f \in ForeignLimitProofs :
        /\ ce' = [ce EXCEPT !.proof_selection_limit = f]
        /\ tamper' = [kind |-> "limit_proof", index |-> 0]
    /\ UNCHANGED <<pc, inp, out, vlimit, vresult, scaled>>
    /\ UNCHANGED others

\* The last ballot correctness proof is missing.
DropProof ==
    /\ CanTamper
    /\ Len(ce.proof_ballot_correctness) > 0
    /\ ce' = [ce EXCEPT !.proof_ballot_correctness =
                 SubSeq(@, 1, Len(@) - 1)]
    /\ tamper' = [kind |-> "drop_proof", index |-> Len(ce.proof_ballot_correctness)]
    /\ UNCHANGED <<pc, inp, out, vlimit, vresult, scaled>>
    /\ UNCHANGED others

\* One ballot correctness proof more than there are ciphertexts.
AppendProof ==
    /\ CanTamper
    /\ \E f \in ForeignBallotProofs :
        /\ ce' = [ce EXCEPT !.proof_ballot_correctness = Append(@, f)]
        /\ tamper' = [kind |-> "append_proof",
                      index |-> Len(ce.proof_ballot_correctness) + 1]
    /\ UNCHANGED <<pc, inp, out, vlimit, vresult, scaled>>
    /\ UNCHANGED others

\* A record without selection ciphertexts, with or without its proofs.
ClearSelection ==
    /\ CanTamper
    /\ \E keep \in BOOLEAN :
        ce' = [ce EXCEPT !.selection = <<>>,
                         !.proof_ballot_correctness = IF keep THEN @ ELSE <<>>]
    /\ tamper' = [kind |-> "clear_selection", index |-> 0]
    /\ UNCHANGED <<pc, inp, out, vlimit, vresult, scaled>>
    /\ UNCHANGED others

\* Contest hashes of other records: of the same selection under the other
\* contest indices, and of a record without selection ciphertexts.
OtherContestHashes ==
    ({contest_hash(ci, ce.selection) : ci \in ContestIndices}
        \cup {contest_hash(inp.contest_index, <<>>)}) \ {ce.contest_hash}

\* The contest_hash field is replaced; nothing else is.
ReplaceContestHash ==
    /\ CanTamper
    /\ \E h \in OtherContestHashes :
        ce' = [ce EXCEPT !.contest_hash = h]
    /\ tamper' = [kind |-> "contest_hash", index |-> 0]
    /\ UNCHANGED <<pc, inp, out, vlimit, vresult, scaled>>
    /\ UNCHANGED others

\* The selection limits a contest is verified against: the one it was built
\* for and, for the record as new returned it, the neighbours of that one.
VerifyLimits ==
    IF tamper = NoTamper
    THEN {inp.selection_limit - 1, inp.selection_limit, inp.selection_limit + 1} \cap Limits
    ELSE {inp.selection_limit}

\* A call of ce.verify(header, selection_limit).
Verify ==
    /\ pc = "built"
    /\ \E selection_limit \in VerifyLimits :
        /\ vlimit' = selection_limit
        /\ vresult' = verify(ce, selection_limit)
    /\ pc' = "verified"
    /\ UNCHANGED <<inp, out, ce, tamper, scaled>>
    /\ UNCHANGED others

\* A call of ce.scale(fixed_parameters, factor) on the record new returned
\* or on one without selection ciphertexts.
Scale ==
    /\ pc = "built"
    /\ tamper.kind \in {"none", "clear_selection"}
    /\ \E factor \in Factors :
        scaled' = [called |-> TRUE, factor |-> factor,
                   selection |-> scale(ce, factor).selection]
    /\ pc' = "scaled"
    /\ UNCHANGED <<inp, out, ce, tamper, vlimit, vresult>>
    /\ UNCHANGED others

Next ==
    \/ New
    \/ TamperAlpha
    \/ TamperBeta
    \/ SubstituteBallotProof
    \/ SubstituteLimitProof
    \/ DropProof
    \/ AppendProof
    \/ ClearSelection
    \/ ReplaceContestHash
    \/ Verify
    \/ Scale

Spec == Init /\ [][Next]_vars

(***************************************************************************)
(* What the claims speak of.                                               *)
(***************************************************************************)
\* new has been called.
Called == pc # "start"
\* verify has been called (and returned or panicked).
Verified == pc = "verified"
\* The record at hand is the one new returned.
Untampered == tamper = NoTamper
\* The call of new has just ended: inp and out, which no later call
\* changes, are looked at in this state.
NewEnded == pc \in {"built", "panicked"} /\ tamper = NoTamper

\* The plaintext vector is a non-empty 0/1 vector within the selection limit.
ValidSelection ==
    /\ Len(inp.vote) > 0
    /\ IsZeroOne(inp.vote)
    /\ SumOf(inp.vote) <= inp.selection_limit

\* Decryption with the secret key: ct encrypts m.
Encrypts(ct, m) == ct.beta = (ModExp(ct.alpha, SecretKey, p) * ModExp(g, m, p)) % p
EncryptsZeroOne(ct) == Encrypts(ct, 0) \/ Encrypts(ct, 1)
\* The number of ciphertexts of a selection that encrypt 1.
OnesEncrypted(selection) ==
    SumOf([i \in 1..Len(selection) |-> IF Encrypts(selection[i], 1) THEN 1 ELSE 0])

RECURSIVE ProductRange(_, _, _)
\* The component-wise product mod p of the ciphertexts lo..hi.
ProductRange(selection, lo, hi) ==
    IF lo = hi THEN selection[lo]
    ELSE LET l == ProductRange(selection, lo, (lo + hi) \div 2)
             r == ProductRange(selection, (lo + hi) \div 2 + 1, hi)
         IN  [alpha |-> (l.alpha * r.alpha) % p, beta |-> (l.beta * r.beta) % p]

ProductOf(selection) == ProductRange(selection, 1, Len(selection))

\* Every selection ciphertext has, at its own 1-based index, a ballot
\* correctness proof that verifies for it.
BallotChecksPass ==
    \A i \in 1..Len(ce.selection) :
        /\ i <= Len(ce.proof_ballot_correctness)
        /\ ProofRange_verify(ce.proof_ballot_correctness[i], ce.selection[i], 1)

\* The selection limit proof verifies against the product of the selection
\* ciphertexts and the limit handed to verify.
LimitCheckPasses ==
    ProofRange_verify(ce.proof_selection_limit, ProductOf(ce.selection), vlimit)

(***************************************************************************)
(* C1.  For every non-empty 0/1 selection vector whose sum is at most      *)
(* selection_limit, new returns a ContestEncrypted, and verify with the    *)
(* same header and the same selection_limit returns true.                  *)
(***************************************************************************)
C1_RoundTrip ==
    (Called /\ ValidSelection) =>
        /\ out.outcome = "ok"
        /\ (Verified /\ Untampered /\ vlimit = inp.selection_limit) => vresult = "true"

C3_LengthMismatchFails ==
    (Verified /\ Len(ce.selection) > 0
        /\ Len(ce.proof_ballot_correctness) # Len(ce.selection)) =>
        vresult = "false"

(***************************************************************************)
(* C4.  For every ContestEncrypted, also one without selection             *)
(* ciphertexts, verify ends with a boolean and never panics.               *)
(***************************************************************************)
C4_VerifyNeverPanics == Verified => vresult \in {"true", "false"}

(***************************************************************************)
(* C5.  new never returns a ContestEncrypted when the sum of the plaintext *)
(* selection exceeds contest.selection_limit: the call fails before any    *)
(* range proof for the selection limit is built.                           *)
(***************************************************************************)
C5_OverLimitRejected ==
    (Called /\ SumOf(inp.vote) > inp.selection_limit) =>
        (out.outcome # "ok" /\ ~out.range_proof_entered)

(***************************************************************************)
(* C6.  new fails when the length of the plaintext selection vector        *)
(* differs from the number of options of the contest; it never returns a   *)
(* ContestEncrypted whose selection length differs from that number.       *)
(***************************************************************************)
C6_LengthValidated ==
    Called =>
        /\ Len(inp.vote) # inp.n_options => out.outcome # "ok"
        /\ out.outcome = "ok" => Len(out.ce.selection) = inp.n_options

(***************************************************************************)
(* C7.  No contest whose selection ciphertexts encrypt 0/1 values summing  *)
(* to more than the selection limit handed to verify is accepted: verify   *)
(* does not return true for it, in particular not for a selection summing  *)
(* to selection_limit + 1 that new encrypted unchecked.                    *)
(***************************************************************************)
C7_OverLimitNotAccepted ==
    (Verified
        /\ (\A i \in 1..Len(ce.selection) : EncryptsZeroOne(ce.selection[i]))
        /\ OnesEncrypted(ce.selection) > vlimit) =>
        vresult # "true"

\* new encrypted a 0/1 vector summing to selection_limit + 1, and verify with
\* that selection_limit refused the contest.
C7_Witness ==
    /\ Verified
    /\ Untampered
    /\ IsZeroOne(inp.vote)
    /\ vlimit = inp.selection_limit
    /\ SumOf(inp.vote) = vlimit + 1
    /\ OnesEncrypted(ce.selection) = vlimit + 1
    /\ vresult = "false"

(***************************************************************************)
(* C8.  Starting from a ContestEncrypted that new produced and that        *)
(* verifies, replacing one alpha or beta of a selection ciphertext by a    *)
(* different value, or replacing a proof by a proof produced for a         *)
(* different ciphertext (of this or of another contest) or for a different *)
(* selection limit, makes verify return false.                             *)
(***************************************************************************)
\* The record new returned verifies against the limit handed to verify.
OriginalVerifies == verify(out.ce, vlimit) = "true"

\* The proof was produced for a ciphertext other than ct, or for a range
\* other than 0..big_l.
ProducedForAnother(proof, ct, big_l) ==
    proof.alpha # ct.alpha \/ proof.beta # ct.beta \/ proof.big_l # big_l

C8_TamperDetected ==
    (Verified /\ OriginalVerifies) =>
        /\ tamper.kind \in {"alpha", "beta"} =>
              (ce.selection # out.ce.selection /\ vresult = "false")
        /\ (tamper.kind = "ballot_proof"
               /\ ProducedForAnother(ce.proof_ballot_correctness[tamper.index],
                                     ce.selection[tamper.index], 1)) =>
              vresult = "false"
        /\ (tamper.kind = "limit_proof"
               /\ ProducedForAnother(ce.proof_selection_limit,
                                     ProductOf(ce.selection), vlimit)) =>
              vresult = "false"

\* A ballot correctness proof of a later option was replaced, in a contest
\* that verified, by the proof of another ciphertext, and verify refused it.
C8_Witness ==
    /\ Verified
    /\ OriginalVerifies
    /\ tamper.kind = "ballot_proof"
    /\ tamper.index > 1
    /\ ProducedForAnother(ce.proof_ballot_correctness[tamper.index],
                          ce.selection[tamper.index], 1)
    /\ ce.proof_ballot_correctness[tamper.index].sound
    /\ vresult = "false"

(***************************************************************************)
(* C9.  For every non-empty sequence of pairs (encrypt(K, xi_i, m_i),      *)
(* xi_i), sum_selection_nonce_vector returns (C, xi) with xi = (sum of the *)
(* xi_i) mod q and C = (g^xi mod p, K^xi * g^(sum of the m_i) mod p).      *)
(***************************************************************************)
\* The pairs that new handed to sum_selection_nonce_vector.
NoncesOf(pairs) == [i \in 1..Len(pairs) |-> pairs[i].nonce]

C9_CombinedIsEncryptionOfSum ==
    (NewEnded /\ out.sum_arg_len >= 1) =>
        LET pairs == out.selection_and_nonce
            xi == SumOf(NoncesOf(pairs)) % q
        IN  /\ Len(pairs) = out.sum_arg_len
            /\ \A i \in 1..Len(pairs) :
                   pairs[i].ct = encrypt_with(pairs[i].nonce, inp.vote[i])
            /\ ~out.combined.panic
            /\ out.combined.nonce = xi
            /\ out.combined.ct.alpha = ModExp(g, xi, p)
            /\ out.combined.ct.beta =
                   (ModExp(K, xi, p) * ModExp(g, SumOf(inp.vote), p)) % p

\* Three pairs were combined whose nonces sum to q or more and whose
\* plaintexts are not all equal.
C9_Witness ==
    /\ out.sum_arg_len = 3
    /\ SumOf(NoncesOf(out.selection_and_nonce)) >= q
    /\ inp.vote[1] # inp.vote[2]
    /\ SumOf(inp.vote) >= 2

(***************************************************************************)
(* C10.  new never calls sum_selection_nonce_vector on an empty sequence:  *)
(* a call of new with an empty plaintext selection vector is rejected      *)
(* before sum_selection_nonce_vector is reached.                           *)
(***************************************************************************)
C10_CombineNeverOnEmpty ==
    Called =>
        /\ out.sum_arg_len # 0
        /\ Len(inp.vote) = 0 => out.sum_arg_len = -1

(***************************************************************************)
(* C11.  scale(factor) returns a selection of the same length and order,   *)
(* element i being (alpha_i^factor mod p, beta_i^factor mod p); where      *)
(* element i is the encryption of m_i under the nonce xi_i, the scaled     *)
(* element is the encryption of factor * m_i under factor * xi_i mod q;    *)
(* and the step that scales leaves the ContestEncrypted as it was.         *)
(***************************************************************************)
C11_ScaledState ==
    scaled.called =>
        /\ Len(scaled.selection) = Len(ce.selection)
        /\ \A i \in 1..Len(ce.selection) :
              /\ scaled.selection[i].alpha = ModExp(ce.selection[i].alpha, scaled.factor, p)
              /\ scaled.selection[i].beta = ModExp(ce.selection[i].beta, scaled.factor, p)
        /\ Untampered =>
              \A i \in 1..Len(ce.selection) :
                  scaled.selection[i] =
                      encrypt_with((scaled.factor * out.selection_and_nonce[i].nonce) % q,
                                   scaled.factor * inp.vote[i])

C11_ScaleIsReencryption ==
    /\ []C11_ScaledState
    /\ [][scaled' # scaled => ce' = ce]_vars

C11_Witness ==
    /\ scaled.called
    /\ Untampered
    /\ scaled.factor > q
    /\ Len(ce.selection) = MaxOptions
    /\ inp.vote[1] = 0
    /\ inp.vote[2] = 1

(***************************************************************************)
(* The loop of encrypt_selection over an index type of IndexBits bits.     *)
(* With u32 and 2^31 options the loop is out of reach of enumeration; the  *)
(* same loop is run here with `as u32` a truncation to IndexBits bits and  *)
(* with plaintext vectors long enough to pass the width twice.  The valid  *)
(* range of Index is not part of the sources at hand: both the range up to *)
(* half the width (a sign bit kept free) and the full non-zero range are   *)
(* run.                                                                    *)
(***************************************************************************)
\* The width of the narrow index type.
IndexBits == 3
\* `j as u32` at that width.
as_u32(j) == j % (2 ^ IndexBits)
\* The largest valid index: either half the width or all of it.
ValidMaxima == {2 ^ (IndexBits - 1) - 1, 2 ^ IndexBits - 1}
\* The lengths of pt_vote.vote that are run.
IndexedLengths == 0..(2 * (2 ^ IndexBits) + 2)

\* One iteration whose index error is swallowed: the option is encrypted
\* under the placeholder index 1.
encrypt_selection_iteration_unwrap_or(e) ==
    LET o_idx == as_u32(e.j)
        ok == o_idx >= 1 /\ o_idx <= e.valid_max
    IN  [e EXCEPT !.j = e.j + 1,
                  !.o_idx = Append(e.o_idx, IF ok THEN o_idx ELSE 1)]

\* One iteration of `for j in 1..pt_vote.vote.len() + 1`: the index of
\* option j is from_one_based_index(j as u32).unwrap(), which panics on
\* Err; otherwise the option is encrypted under the nonce of that index.
encrypt_selection_iteration(e) ==
    LET o_idx == as_u32(e.j)
        ok == o_idx >= 1 /\ o_idx <= e.valid_max
    IN  IF ok THEN [e EXCEPT !.j = e.j + 1, !.o_idx = Append(e.o_idx, o_idx)]
        ELSE [e EXCEPT !.pc = "panicked"]

\* The contest components at rest.
ContestAtRest ==
    /\ pc = "start"
    /\ inp = NoInput
    /\ out = NoOutcome
    /\ ce = NoContest
    /\ tamper = NoTamper
    /\ vlimit = 0
    /\ vresult = "none"
    /\ scaled = NoScaled

InitIndex ==
    /\ ContestAtRest
    /\ es \in {[pc |-> "loop", len |-> n, valid_max |-> m, j |-> 1, o_idx |-> <<>>] :
                n \in IndexedLengths, m \in ValidMaxima}
    /\ hv = Idle
    /\ nv = Idle

\* The body of the loop runs for option es.j.
EncryptOption ==
    /\ es.pc = "loop"
    /\ es.j < es.len + 1
    /\ es' = encrypt_selection_iteration(es)
    /\ UNCHANGED <<pc, inp, out, ce, tamper, vlimit, vresult, scaled, hv, nv>>

\* The loop is over: encrypt_selection returns the vector.
EncryptSelectionReturns ==
    /\ es.pc = "loop"
    /\ ~(es.j < es.len + 1)
    /\ es' = [es EXCEPT !.pc = "done"]
    /\ UNCHANGED <<pc, inp, out, ce, tamper, vlimit, vresult, scaled, hv, nv>>

NextIndex ==
    \/ EncryptOption
    \/ EncryptSelectionReturns

SpecIndex == InitIndex /\ [][NextIndex]_vars

(***************************************************************************)
(* C12.  The option at 0-based position i is encrypted under the nonce of  *)
(* option index i + 1; where i + 1 is no valid index the construction      *)
(* fails (encrypt_selection does not return); no option is encrypted under *)
(* a wrapped, truncated or placeholder index, and no two options of a      *)
(* contest share an index.                                                 *)
(***************************************************************************)
C12_IndexOfOption ==
    es.pc # "idle" =>
        /\ \A i \in 1..Len(es.o_idx) : es.o_idx[i] = i
        /\ \A i, k \in 1..Len(es.o_idx) : i # k => es.o_idx[i] # es.o_idx[k]
        /\ es.pc = "done" =>
              /\ Len(es.o_idx) = es.len
              /\ \A i \in 1..es.len : i >= 1 /\ i <= es.valid_max

\* A vector long enough for `as u32` to wrap: the loop panicked at the
\* first option without a valid index.
C12_Witness ==
    /\ es.pc = "panicked"
    /\ es.len > 2 ^ IndexBits
    /\ es.j = es.valid_max + 1
    /\ Len(es.o_idx) = es.valid_max

(***************************************************************************)
(* C13.  A ContestEncrypted returned by new has one ballot correctness     *)
(* proof per selection ciphertext and per plaintext, in the same order:    *)
(* the proof at 1-based index i is a proof about the i-th ciphertext, and  *)
(* for a 0/1 plaintext it is the proof built from that ciphertext, the     *)
(* nonce of option i and the i-th plaintext.                               *)
(***************************************************************************)
C13_OneProofPerCiphertext ==
    (NewEnded /\ out.outcome = "ok") =>
        /\ Len(out.ce.proof_ballot_correctness) = Len(out.ce.selection)
        /\ Len(out.ce.selection) = Len(inp.vote)
        /\ \A i \in 1..Len(inp.vote) :
              LET xi == nonce(inp.primary_nonce, inp.contest_index, i)
                  ct == out.ce.selection[i]
                  proof == out.ce.proof_ballot_correctness[i]
              IN  /\ ct = encrypt_with(xi, inp.vote[i])
                  /\ proof.alpha = ct.alpha
                  /\ proof.beta = ct.beta
                  /\ proof.big_l = 1
                  /\ inp.vote[i] \in {0, 1} =>
                        [proof EXCEPT !.rnd = 0] = ProofRange_new(0, ct, xi, inp.vote[i], 1)

C13_Witness ==
    /\ out.outcome = "ok"
    /\ Len(inp.vote) = MaxOptions
    /\ inp.vote[1] = 1
    /\ inp.vote[2] = 0
    /\ out.ce.proof_ballot_correctness[2] # out.ce.proof_ballot_correctness[1]

(***************************************************************************)
(* HValue (hash.rs).  An HValue is a sequence of HVALUE_BYTE_LEN bytes; a  *)
(* text is the sequence of its bytes (ASCII codes); indices are 0-based in *)
(* the code and 1-based here.                                              *)
(***************************************************************************)
HVALUE_BYTE_LEN == 32
\* b"H(" and b")".
HVALUE_SERIALIZE_PREFIX == <<72, 40>>
HVALUE_SERIALIZE_SUFFIX == <<41>>
HVALUE_SERIALIZE_LEN ==
    Len(HVALUE_SERIALIZE_PREFIX) + HVALUE_BYTE_LEN * 2 + Len(HVALUE_SERIALIZE_SUFFIX)
\* b"0123456789ABCDEF".
HexDigitsUpper == <<48, 49, 50, 51, 52, 53, 54, 55, 56, 57, 65, 66, 67, 68, 69, 70>>

\* The states of the closure of display_as_ascii.
State_Prefix(ix) == [tag |-> "Prefix", ix |-> ix, lower |-> FALSE]
State_Nibble(lower, ix) == [tag |-> "Nibble", ix |-> ix, lower |-> lower]
State_Suffix(ix) == [tag |-> "Suffix", ix |-> ix, lower |-> FALSE]
State_End == [tag |-> "End", ix |-> 0, lower |-> FALSE]

\* A closure that writes the low nibble of a byte before its high nibble.
display_closure_low_first(x, state) ==
    IF state.tag = "Prefix"
    THEN [state |-> IF state.ix + 1 < Len(HVALUE_SERIALIZE_PREFIX)
                    THEN State_Prefix(state.ix + 1)
                    ELSE State_Nibble(FALSE, 0),
          out |-> HVALUE_SERIALIZE_PREFIX[state.ix + 1]]
    ELSE IF state.tag = "Nibble"
    THEN LET upper == ~state.lower
             nibble == IF upper THEN x[state.ix + 1] % 16
                       ELSE x[state.ix + 1] \div 16
         IN  [state |-> IF upper THEN State_Nibble(upper, state.ix)
                        ELSE IF state.ix + 1 < HVALUE_BYTE_LEN
                        THEN State_Nibble(upper, state.ix + 1)
                        ELSE State_Suffix(0),
              out |-> HexDigitsUpper[nibble + 1]]
    ELSE IF state.tag = "Suffix"
    THEN [state |-> IF state.ix + 1 < Len(HVALUE_SERIALIZE_SUFFIX)
                    THEN State_Suffix(state.ix + 1)
                    ELSE State_End,
          out |-> HVALUE_SERIALIZE_SUFFIX[state.ix + 1]]
    ELSE [state |-> State_End, out |-> 32]

\* A closure that leaves the nibbles one byte early.
display_closure_one_byte_less(x, state) ==
    IF state.tag = "Prefix"
    THEN [state |-> IF state.ix + 1 < Len(HVALUE_SERIALIZE_PREFIX)
                    THEN State_Prefix(state.ix + 1)
                    ELSE State_Nibble(FALSE, 0),
          out |-> HVALUE_SERIALIZE_PREFIX[state.ix + 1]]
    ELSE IF state.tag = "Nibble"
    THEN LET upper == ~state.lower
             nibble == IF upper THEN x[state.ix + 1] \div 16
                       ELSE x[state.ix + 1] % 16
         IN  [state |-> IF upper THEN State_Nibble(upper, state.ix)
                        ELSE IF state.ix + 2 < HVALUE_BYTE_LEN
                        THEN State_Nibble(upper, state.ix + 1)
                        ELSE State_Suffix(0),
              out |-> HexDigitsUpper[nibble + 1]]
    ELSE IF state.tag = "Suffix"
    THEN [state |-> IF state.ix + 1 < Len(HVALUE_SERIALIZE_SUFFIX)
                    THEN State_Suffix(state.ix + 1)
                    ELSE State_End,
          out |-> HVALUE_SERIALIZE_SUFFIX[state.ix + 1]]
    ELSE [state |-> State_End, out |-> 32]

\* One call of the closure handed to ArrayAscii::from_fn: the byte it
\* returns and the state it leaves.  `self.0[ix] >> 4` and
\* `self.0[ix] & 0x0f` are the quotient and the remainder by 16.
display_closure(x, state) ==
    IF state.tag = "Prefix"
    THEN [state |-> IF state.ix + 1 < Len(HVALUE_SERIALIZE_PREFIX)
                    THEN State_Prefix(state.ix + 1)
                    ELSE State_Nibble(FALSE, 0),
          out |-> HVALUE_SERIALIZE_PREFIX[state.ix + 1]]
    ELSE IF state.tag = "Nibble"
    THEN LET upper == ~state.lower
             nibble == IF upper THEN x[state.ix + 1] \div 16
                       ELSE x[state.ix + 1] % 16
         IN  [state |-> IF upper THEN State_Nibble(upper, state.ix)
                        ELSE IF state.ix + 1 < HVALUE_BYTE_LEN
                        THEN State_Nibble(upper, state.ix + 1)
                        ELSE State_Suffix(0),
              out |-> HexDigitsUpper[nibble + 1]]
    ELSE IF state.tag = "Suffix"
    THEN [state |-> IF state.ix + 1 < Len(HVALUE_SERIALIZE_SUFFIX)
                    THEN State_Suffix(state.ix + 1)
                    ELSE State_End,
          out |-> HVALUE_SERIALIZE_SUFFIX[state.ix + 1]]
    ELSE [state |-> State_End, out |-> 32]

RECURSIVE ArrayAscii_from_fn(_, _, _, _)
\* ArrayAscii::from_fn: the closure is called once per output index, in
\* index order; acc holds the state of the closure and the text written
\* so far, and the calls for the indices lo..hi are made.
ArrayAscii_from_fn(x, acc, lo, hi) ==
    IF lo > hi THEN acc
    ELSE IF lo = hi
    THEN LET r == display_closure(x, acc.state)
         IN  [state |-> r.state, done |-> Append(acc.done, r.out)]
    ELSE LET mid == (lo + hi) \div 2
             left == ArrayAscii_from_fn(x, acc, lo, mid)
         IN  IF left = left THEN ArrayAscii_from_fn(x, left, mid + 1, hi) ELSE acc

\* HValue::display_as_ascii (Display and Serialize write this text).
display_as_ascii(x) ==
    ArrayAscii_from_fn(x, [state |-> State_Prefix(0), done |-> <<>>],
                       1, HVALUE_SERIALIZE_LEN).done

\* A hex_digit_to_nibble that forgets the 10 of the letters.
hex_digit_to_nibble_letters_from_zero(hex_digit) ==
    IF hex_digit >= 48 /\ hex_digit <= 57 THEN [some |-> TRUE, nibble |-> hex_digit - 48]
    ELSE IF hex_digit >= 97 /\ hex_digit <= 102 THEN [some |-> TRUE, nibble |-> hex_digit - 97]
    ELSE IF hex_digit >= 65 /\ hex_digit <= 70 THEN [some |-> TRUE, nibble |-> hex_digit - 65]
    ELSE [some |-> FALSE, nibble |-> 0]

\* A hex_digit_to_nibble that forgets the 10 of the lowercase letters.
hex_digit_to_nibble_lowercase_from_zero(hex_digit) ==
    IF hex_digit >= 48 /\ hex_digit <= 57 THEN [some |-> TRUE, nibble |-> hex_digit - 48]
    ELSE IF hex_digit >= 97 /\ hex_digit <= 102 THEN [some |-> TRUE, nibble |-> hex_digit - 97]
    ELSE IF hex_digit >= 65 /\ hex_digit <= 70 THEN [some |-> TRUE, nibble |-> hex_digit - 65 + 10]
    ELSE [some |-> FALSE, nibble |-> 0]

\* hex_digit_to_nibble: b'0'..=b'9', b'a'..=b'f', b'A'..=b'F', or None.
hex_digit_to_nibble(hex_digit) ==
    IF hex_digit >= 48 /\ hex_digit <= 57 THEN [some |-> TRUE, nibble |-> hex_digit - 48]
    ELSE IF hex_digit >= 97 /\ hex_digit <= 102 THEN [some |-> TRUE, nibble |-> hex_digit - 97 + 10]
    ELSE IF hex_digit >= 65 /\ hex_digit <= 70 THEN [some |-> TRUE, nibble |-> hex_digit - 65 + 10]
    ELSE [some |-> FALSE, nibble |-> 0]

\* &bytes[start..end] (0-based, end exclusive): panics when out of range.
slice(bytes, start, end) ==
    [panic |-> start > end \/ end > Len(bytes),
     bytes |-> IF start > end \/ end > Len(bytes) THEN <<>>
               ELSE SubSeq(bytes, start + 1, end)]

\* The closure of byte_iterator on one chunk of two hex digits: the fold
\* of (acc << 4) | nibble over the pair on a u8 (a bad digit counts as 0
\* and sets bad_digit).  The low four bits of acc << 4 are 0, so the `|`
\* with a nibble is a sum.
byte_of_pair(hex_digit_pair) ==
    LET hi == hex_digit_to_nibble(hex_digit_pair[1])
        lo == hex_digit_to_nibble(hex_digit_pair[2])
        acc1 == ((0 * 16) % U8Modulus) + hi.nibble
        acc2 == ((acc1 * 16) % U8Modulus) + lo.nibble
    IN  [byte |-> acc2, bad_digit |-> ~hi.some \/ ~lo.some]

\* The result of from_str.
ParseResult(outcome, value) == [outcome |-> outcome, value |-> value]

\* A from_str that does not look at the length of the text.
from_str_no_length_check(bytes) ==
    LET prefix_start_ix == 0
        prefix_end_ix == Len(HVALUE_SERIALIZE_PREFIX)
        suffix_start_ix == HVALUE_SERIALIZE_LEN - Len(HVALUE_SERIALIZE_SUFFIX)
        suffix_end_ix == HVALUE_SERIALIZE_LEN
        hex_start_ix == prefix_end_ix
        hex_end_ix == suffix_start_ix
        prefix == slice(bytes, prefix_start_ix, prefix_end_ix)
        suffix == slice(bytes, suffix_start_ix, suffix_end_ix)
        hex_digits == slice(bytes, hex_start_ix, hex_end_ix).bytes
        chunks == Len(hex_digits) \div 2
        pairs == [k \in 1..chunks |->
                    byte_of_pair(<<hex_digits[2 * k - 1], hex_digits[2 * k]>>)]
        bad_digit == \E k \in 1..chunks : pairs[k].bad_digit
        missing_digit == chunks < HVALUE_BYTE_LEN
        hvba == [ix \in 1..HVALUE_BYTE_LEN |-> IF ix <= chunks THEN pairs[ix].byte ELSE 0]
    IN  IF prefix.panic THEN ParseResult("panic", <<>>)
        ELSE IF prefix.bytes # HVALUE_SERIALIZE_PREFIX THEN ParseResult("Err", <<>>)
        ELSE IF suffix.panic THEN ParseResult("panic", <<>>)
        ELSE IF suffix.bytes # HVALUE_SERIALIZE_SUFFIX THEN ParseResult("Err", <<>>)
        ELSE IF bad_digit \/ missing_digit THEN ParseResult("Err", <<>>)
        ELSE ParseResult("Ok", hvba)

\* HValue::from_str on the bytes of s: Ok(HValue), Err, or a panic.  The
\* `&&` of prefix_and_suffix_look_ok takes the slices only of a text of
\* HVALUE_SERIALIZE_LEN bytes.
from_str(bytes) ==
    LET prefix_start_ix == 0
        prefix_end_ix == Len(HVALUE_SERIALIZE_PREFIX)
        suffix_start_ix == HVALUE_SERIALIZE_LEN - Len(HVALUE_SERIALIZE_SUFFIX)
        suffix_end_ix == HVALUE_SERIALIZE_LEN
        hex_start_ix == prefix_end_ix
        hex_end_ix == suffix_start_ix
        prefix == slice(bytes, prefix_start_ix, prefix_end_ix)
        suffix == slice(bytes, suffix_start_ix, suffix_end_ix)
        hex_digits == slice(bytes, hex_start_ix, hex_end_ix).bytes
        chunks == Len(hex_digits) \div 2
        pairs == [k \in 1..chunks |->
                    byte_of_pair(<<hex_digits[2 * k - 1], hex_digits[2 * k]>>)]
        bad_digit == \E k \in 1..chunks : pairs[k].bad_digit
        missing_digit == chunks < HVALUE_BYTE_LEN
        hvba == [ix \in 1..HVALUE_BYTE_LEN |-> IF ix <= chunks THEN pairs[ix].byte ELSE 0]
    IN  IF Len(bytes) # HVALUE_SERIALIZE_LEN THEN ParseResult("Err", <<>>)
        ELSE IF prefix.panic THEN ParseResult("panic", <<>>)
        ELSE IF prefix.bytes # HVALUE_SERIALIZE_PREFIX THEN ParseResult("Err", <<>>)
        ELSE IF suffix.panic THEN ParseResult("panic", <<>>)
        ELSE IF suffix.bytes # HVALUE_SERIALIZE_SUFFIX THEN ParseResult("Err", <<>>)
        ELSE IF bad_digit \/ missing_digit THEN ParseResult("Err", <<>>)
        ELSE ParseResult("Ok", hvba)

(***************************************************************************)
(* eg_h: HMAC-SHA-256 (hmac::Hmac<sha2::Sha256>; RFC 2104 over FIPS 180-4).*)
(* A 32-bit word is the pair of its 16-bit halves, the high half first.    *)
(***************************************************************************)
RECURSIVE Xor3Bits(_, _, _, _)
\* The exclusive or of the low n bits of three numbers.
Xor3Bits(a, b, c, n) ==
    IF n = 0 THEN 0
    ELSE 2 * Xor3Bits(a \div 2, b \div 2, c \div 2, n - 1) + ((a + b + c) % 2)

RECURSIVE ChBits(_, _, _, _)
\* Bit by bit, y where x is 1 and z where x is 0.
ChBits(x, y, z, n) ==
    IF n = 0 THEN 0
    ELSE 2 * ChBits(x \div 2, y \div 2, z \div 2, n - 1)
         + (IF x % 2 = 1 THEN y % 2 ELSE z % 2)

RECURSIVE MajBits(_, _, _, _)
\* Bit by bit, the majority of x, y and z.
MajBits(x, y, z, n) ==
    IF n = 0 THEN 0
    ELSE 2 * MajBits(x \div 2, y \div 2, z \div 2, n - 1)
         + (((x % 2) + (y % 2) + (z % 2)) \div 2)

RECURSIVE SumHalves(_, _, _)
\* The sum of the high (half = 1) or low (half = 2) halves of n words.
SumHalves(ws, half, n) ==
    IF n = 0 THEN 0 ELSE SumHalves(ws, half, n - 1) + ws[n][half]

\* The sum of a sequence of words modulo 2^32.
WordSum(ws) ==
    LET lo == SumHalves(ws, 2, Len(ws))
        hi == SumHalves(ws, 1, Len(ws)) + lo \div 65536
    IN  <<hi % 65536, lo % 65536>>

WordXor3(a, b, c) == <<Xor3Bits(a[1], b[1], c[1], 16), Xor3Bits(a[2], b[2], c[2], 16)>>
\* Rotation and shift to the right by fewer than 16 bits.
RotRShort(w, n) ==
    <<w[1] \div 2 ^ n + (w[2] % 2 ^ n) * 2 ^ (16 - n),
      w[2] \div 2 ^ n + (w[1] % 2 ^ n) * 2 ^ (16 - n)>>
RotR(w, n) == IF n >= 16 THEN RotRShort(<<w[2], w[1]>>, n - 16) ELSE RotRShort(w, n)
ShR(w, n) == <<w[1] \div 2 ^ n, w[2] \div 2 ^ n + (w[1] % 2 ^ n) * 2 ^ (16 - n)>>

Ch(x, y, z) == <<ChBits(x[1], y[1], z[1], 16), ChBits(x[2], y[2], z[2], 16)>>
Maj(x, y, z) == <<MajBits(x[1], y[1], z[1], 16), MajBits(x[2], y[2], z[2], 16)>>
BigSigma0(x) == WordXor3(RotR(x, 2), RotR(x, 13), RotR(x, 22))
BigSigma1(x) == WordXor3(RotR(x, 6), RotR(x, 11), RotR(x, 25))
SmallSigma0(x) == WordXor3(RotR(x, 7), RotR(x, 18), ShR(x, 3))
SmallSigma1(x) == WordXor3(RotR(x, 17), RotR(x, 19), ShR(x, 10))

\* The round constants and the initial hash value of SHA-256.
K256 ==
    <<<<17034, 12184>>, <<28983, 17553>>, <<46528, 64463>>, <<59829, 56229>>,
      <<14678, 49755>>, <<23025, 4593>>, <<37439, 33444>>, <<43804, 24277>>,
      <<55303, 43672>>, <<4739, 23297>>, <<9265, 34238>>, <<21772, 32195>>,
      <<29374, 23924>>, <<32990, 45566>>, <<39900, 1703>>, <<49563, 61812>>,
      <<58523, 27073>>, <<61374, 18310>>, <<4033, 40390>>, <<9228, 41420>>,
      <<11753, 11375>>, <<19060, 33962>>, <<23728, 43484>>, <<30457, 35034>>,
      <<38974, 20818>>, <<43057, 50797>>, <<45059, 10184>>, <<48985, 32711>>,
      <<50912, 3059>>, <<54695, 37191>>, <<1738, 25425>>, <<5161, 10599>>,
      <<10167, 2693>>, <<11803, 8504>>, <<19756, 28156>>, <<21304, 3347>>,
      <<25866, 29524>>, <<30314, 2747>>, <<33218, 51502>>, <<37490, 11397>>,
      <<41663, 59553>>, <<43034, 26187>>, <<49739, 35696>>, <<51052, 20899>>,
      <<53650, 59417>>, <<54937, 1572>>, <<62478, 13701>>, <<4202, 41072>>,
      <<6564, 49430>>, <<7735, 27656>>, <<10056, 30540>>, <<13488, 48309>>,
      <<14620, 3251>>, <<20184, 43594>>, <<23452, 51791>>, <<26670, 28659>>,
      <<29839, 33518>>, <<30885, 25455>>, <<33992, 30740>>, <<36039, 520>>,
      <<37054, 65530>>, <<42064, 27883>>, <<48889, 41975>>, <<50801, 30962>>>>

H256_256 ==
    <<<<27145, 58983>>, <<47975, 44677>>, <<15470, 62322>>, <<42319, 62778>>,
      <<20750, 21119>>, <<39685, 26764>>, <<8067, 55723>>, <<23520, 52505>>>>


\* The bytes of one block (64 of them) as 16 big-endian words.
BlockWords(block) ==
    [j \in 1..16 |-> <<block[4 * j - 3] * 256 + block[4 * j - 2],
                       block[4 * j - 1] * 256 + block[4 * j]>>]

RECURSIVE MessageSchedule(_, _, _)
\* The message schedule grown by the words W_(lo-1)..W_(hi-1) (the words
\* at the 1-based places lo..hi), in order.
MessageSchedule(W, lo, hi) ==
    IF lo > hi THEN W
    ELSE IF lo = hi
    THEN Append(W, WordSum(<<SmallSigma1(W[lo - 2]), W[lo - 7],
                             SmallSigma0(W[lo - 15]), W[lo - 16]>>))
    ELSE LET mid == (lo + hi) \div 2
             left == MessageSchedule(W, lo, mid)
         IN  IF left = left THEN MessageSchedule(left, mid + 1, hi) ELSE W

RECURSIVE Rounds(_, _, _, _)
\* The rounds lo..hi of the compression function, in order, on the working
\* variables a..h.
Rounds(v, W, lo, hi) ==
    IF lo > hi THEN v
    ELSE IF lo = hi
    THEN LET T1 == WordSum(<<v[8], BigSigma1(v[5]), Ch(v[5], v[6], v[7]),
                             K256[lo], W[lo]>>)
             T2 == WordSum(<<BigSigma0(v[1]), Maj(v[1], v[2], v[3])>>)
         IN  <<WordSum(<<T1, T2>>), v[1], v[2], v[3],
               WordSum(<<v[4], T1>>), v[5], v[6], v[7]>>
    ELSE LET mid == (lo + hi) \div 2
             left == Rounds(v, W, lo, mid)
         IN  IF left = left THEN Rounds(left, W, mid + 1, hi) ELSE v

\* The compression function: the hash value after one more block.
Compress(H, block) ==
    LET W == MessageSchedule(BlockWords(block), 17, 64)
        v == Rounds(H, W, 1, 64)
    IN  <<WordSum(<<H[1], v[1]>>), WordSum(<<H[2], v[2]>>), WordSum(<<H[3], v[3]>>),
          WordSum(<<H[4], v[4]>>), WordSum(<<H[5], v[5]>>), WordSum(<<H[6], v[6]>>),
          WordSum(<<H[7], v[7]>>), WordSum(<<H[8], v[8]>>)>>

\* The message padded to whole blocks: 0x80, zeros, and the length in bits
\* as 8 big-endian bytes (messages below 2^28 bytes: the upper 4 are 0).
Padded(msg) ==
    LET zeros == (55 - Len(msg)) % 64
        bits == 8 * Len(msg)
    IN  msg \o <<128>> \o [i \in 1..zeros |-> 0]
            \o [i \in 1..8 |-> IF i <= 4 THEN 0 ELSE (bits \div 256 ^ (8 - i)) % 256]

RECURSIVE HashBlocks(_, _, _)
\* The blocks from the one at byte offset `at` on, compressed into H.
HashBlocks(H, padded, at) ==
    IF at >= Len(padded) THEN H
    ELSE LET next == Compress(H, SubSeq(padded, at + 1, at + 64))
         IN  IF next = next THEN HashBlocks(next, padded, at + 64) ELSE H

\* SHA-256: the 32 bytes of the final hash value.
Sha256(msg) ==
    LET H == HashBlocks(H256_256, Padded(msg), 0)
    IN  [k \in 1..32 |->
            LET w == H[(k - 1) \div 4 + 1]
                half == IF (k - 1) % 4 < 2 THEN w[1] ELSE w[2]
            IN  IF k % 2 = 1 THEN half \div 256 ELSE half % 256]

RECURSIVE ByteXor(_, _, _)
\* The exclusive or of the low n bits of two bytes.
ByteXor(a, b, n) ==
    IF n = 0 THEN 0 ELSE 2 * ByteXor(a \div 2, b \div 2, n - 1) + ((a + b) % 2)

\* HMAC (RFC 2104) over SHA-256 with a key of at most one block: the key
\* is padded with zeros to 64 bytes; ipad is 0x36 and opad 0x5c.
HmacSha256(key, data) ==
    LET block_key == [i \in 1..64 |-> IF i <= Len(key) THEN key[i] ELSE 0]
        ipad == [i \in 1..64 |-> ByteXor(block_key[i], 54, 8)]
        opad == [i \in 1..64 |-> ByteXor(block_key[i], 92, 8)]
        inner == Sha256(ipad \o data)
    IN  Sha256(opad \o inner)

\* An H that hashes the key followed by the data.
eg_h_prefix_hash(key, data) == Sha256(key \o data)

\* eg_h: HmacSha256::new_from_slice(key).chain(data).finalize_fixed().
eg_h(key, data) == HmacSha256(key, data)

(***************************************************************************)
(* The HValues and the texts that are run.                                 *)
(***************************************************************************)
\* HValue::default(), the value of the tests (byte ix is ix) and all ones.
HValue_default == [ix \in 1..HVALUE_BYTE_LEN |-> 0]
HValue_of_test == [ix \in 1..HVALUE_BYTE_LEN |-> ix - 1]
HValue_all_ones == [ix \in 1..HVALUE_BYTE_LEN |-> U8Modulus - 1]
BaseHValues == {HValue_default, HValue_of_test, HValue_all_ones}
\* Bytes around the borders of the nibbles.
ByteSamples == {1, 9, 10, 15, 16, 159, 160, 171, 240, 255}
\* The base values and the default value with one byte set.
HValues ==
    BaseHValues \cup
    {[HValue_default EXCEPT ![k] = v] : k \in 1..HVALUE_BYTE_LEN, v \in ByteSamples}
\* Bytes that replace a byte of a text: the hex digits at the borders of
\* their ranges, their neighbours, and the bytes of the prefix and suffix.
ForeignBytes == {32, 40, 41, 47, 48, 57, 58, 64, 65, 70, 71, 72, 96, 97, 102, 103}
\* A character of two bytes (UTF-8).
TwoByteChar == <<195, 169>>
\* Lengths a text is cut to.
CutLengths == {0, 1, 2, 3, HVALUE_SERIALIZE_LEN - 1}

NoParse == ParseResult("none", <<>>)

\* The keys and data H is evaluated on: the default key with no data (the
\* test of eg_h), and the keys and data of the test cases 1 and 2 of
\* RFC 4231 (the keys filled with zeros to 32 bytes, as HMAC fills them).
HKey_rfc4231_1 == [ix \in 1..HVALUE_BYTE_LEN |-> IF ix <= 20 THEN 11 ELSE 0]
HKey_rfc4231_2 ==
    [ix \in 1..HVALUE_BYTE_LEN |-> IF ix <= 4 THEN <<74, 101, 102, 101>>[ix] ELSE 0]
HData_rfc4231_1 == <<72, 105, 32, 84, 104, 101, 114, 101>>
HData_rfc4231_2 ==
    <<119, 104, 97, 116, 32, 100, 111, 32, 121, 97, 32, 119, 97, 110, 116, 32,
      102, 111, 114, 32, 110, 111, 116, 104, 105, 110, 103, 63>>
HKeys == {HValue_default, HKey_rfc4231_1, HKey_rfc4231_2}
HData(key) ==
    IF key = HKey_rfc4231_1 THEN {HData_rfc4231_1}
    ELSE IF key = HKey_rfc4231_2 THEN {HData_rfc4231_2}
    ELSE {<<>>}

InitHValue ==
    /\ ContestAtRest
    /\ es = Idle
    /\ nv = Idle
    /\ hv \in {[pc |-> "value", x |-> h, display |-> <<>>, text |-> <<>>,
                change |-> "none", result |-> NoParse, again |-> <<>>,
                data |-> <<>>, h |-> <<>>] :
                h \in HValues \cup HKeys}

\* x.to_string() (Display; Serialize writes the same text).
Display ==
    /\ hv.pc = "value"
    /\ hv' = [hv EXCEPT !.pc = "text",
                        !.display = display_as_ascii(hv.x),
                        !.text = display_as_ascii(hv.x)]
    /\ UNCHANGED <<pc, inp, out, ce, tamper, vlimit, vresult, scaled, es, nv>>

\* The texts handed to from_str beside the displayed ones: a displayed
\* text of a base value with one change.
CanChange ==
    /\ hv.pc = "text"
    /\ hv.change = "none"
    /\ hv.x \in BaseHValues

ReplaceByte ==
    /\ CanChange
    /\ \E i \in 1..Len(hv.text) : \E c \in ForeignBytes \ {hv.text[i]} :
        hv' = [hv EXCEPT !.text[i] = c, !.change = "byte"]
    /\ UNCHANGED <<pc, inp, out, ce, tamper, vlimit, vresult, scaled, es, nv>>

ReplaceTwoBytes ==
    /\ CanChange
    /\ \E i \in 1..(Len(hv.text) - 1) :
        hv' = [hv EXCEPT !.text[i] = TwoByteChar[1], !.text[i + 1] = TwoByteChar[2],
                         !.change = "char"]
    /\ UNCHANGED <<pc, inp, out, ce, tamper, vlimit, vresult, scaled, es, nv>>

Shorten ==
    /\ CanChange
    /\ \/ \E n \in CutLengths : hv' = [hv EXCEPT !.text = SubSeq(@, 1, n), !.change = "cut"]
       \/ hv' = [hv EXCEPT !.text = Tail(@), !.change = "cut"]
    /\ UNCHANGED <<pc, inp, out, ce, tamper, vlimit, vresult, scaled, es, nv>>

Lengthen ==
    /\ CanChange
    /\ \E c \in {32, 41, 48} :
        \/ hv' = [hv EXCEPT !.text = Append(@, c), !.change = "longer"]
        \/ hv' = [hv EXCEPT !.text = <<c>> \o @, !.change = "longer"]
        \/ hv' = [hv EXCEPT !.text = SubSeq(@, 1, Len(@) - 1) \o <<c, 41>>,
                            !.change = "longer"]
    /\ UNCHANGED <<pc, inp, out, ce, tamper, vlimit, vresult, scaled, es, nv>>

\* The text with the letters among its hex digits in lowercase, as another
\* writer of the same value may produce it.
Lowercase ==
    /\ hv.pc = "text"
    /\ hv.change = "none"
    /\ \E i \in 1..Len(hv.text) : hv.text[i] >= 65 /\ hv.text[i] <= 70
    /\ hv' = [hv EXCEPT !.change = "lowercase",
                        !.text = [i \in 1..Len(hv.text) |->
                                    IF hv.text[i] >= 65 /\ hv.text[i] <= 70
                                    THEN hv.text[i] + 32 ELSE hv.text[i]]]
    /\ UNCHANGED <<pc, inp, out, ce, tamper, vlimit, vresult, scaled, es, nv>>

\* text.parse::<HValue>() (from_str; Deserialize parses the same way).
FromStr ==
    /\ hv.pc = "text"
    /\ hv' = [hv EXCEPT !.pc = "parsed", !.result = from_str(hv.text)]
    /\ UNCHANGED <<pc, inp, out, ce, tamper, vlimit, vresult, scaled, es, nv>>

\* text.parse::<HValue>()?.to_string(): the parsed value displayed again.
DisplayAgain ==
    /\ hv.pc = "parsed"
    /\ hv.result.outcome = "Ok"
    /\ hv' = [hv EXCEPT !.pc = "displayed_again",
                        !.again = display_as_ascii(hv.result.value)]
    /\ UNCHANGED <<pc, inp, out, ce, tamper, vlimit, vresult, scaled, es, nv>>

\* eg_h(&hv.x, &data).
EgH ==
    /\ hv.pc = "value"
    /\ hv.x \in HKeys
    /\ \E data \in HData(hv.x) :
        hv' = [hv EXCEPT !.pc = "hashed", !.data = data, !.h = eg_h(hv.x, data)]
    /\ UNCHANGED <<pc, inp, out, ce, tamper, vlimit, vresult, scaled, es, nv>>

NextHValue ==
    \/ EgH
    \/ Display
    \/ Lowercase
    \/ DisplayAgain
    \/ ReplaceByte
    \/ ReplaceTwoBytes
    \/ Shorten
    \/ Lengthen
    \/ FromStr

SpecHValue == InitHValue /\ [][NextHValue]_vars

\* The uppercase hexadecimal digit of a nibble, as an ASCII code.
UpperHexDigit(n) == IF n < 10 THEN 48 + n ELSE 55 + n
\* Whether a byte is a hexadecimal digit.
IsHexDigit(c) ==
    \/ c >= 48 /\ c <= 57
    \/ c >= 65 /\ c <= 70
    \/ c >= 97 /\ c <= 102
\* 'H(' , 64 hexadecimal digits, ')'.
WellFormed(text) ==
    /\ Len(text) = 67
    /\ text[1] = 72
    /\ text[2] = 40
    /\ text[67] = 41
    /\ \A i \in 3..66 : IsHexDigit(text[i])

(***************************************************************************)
(* C14.  Parsing the Display text of an HValue x with from_str returns     *)
(* Ok(x).                                                                  *)
(***************************************************************************)
C14_DisplayParseRoundTrip ==
    (hv.pc = "parsed" /\ hv.change = "none") => hv.result = ParseResult("Ok", hv.x)

C14_Witness ==
    /\ hv.pc = "parsed"
    /\ hv.change = "none"
    /\ hv.x[HVALUE_BYTE_LEN] = 171
    /\ hv.result.outcome = "Ok"

(***************************************************************************)
(* C15.  The Display text of an HValue has exactly 67 characters: 'H(',    *)
(* then for each of the 32 bytes in index order the high nibble and the    *)
(* low nibble as uppercase hexadecimal digits, then ')'.                   *)
(***************************************************************************)
C15_DisplayForm ==
    hv.pc \in {"text", "parsed"} =>
        /\ Len(hv.display) = 67
        /\ hv.display[1] = 72
        /\ hv.display[2] = 40
        /\ hv.display[67] = 41
        /\ \A i \in 1..32 :
              /\ hv.display[2 * i + 1] = UpperHexDigit(hv.x[i] \div 16)
              /\ hv.display[2 * i + 2] = UpperHexDigit(hv.x[i] % 16)

C15_Witness ==
    /\ hv.pc = "text"
    /\ hv.change = "none"
    /\ hv.x = HValue_of_test
    /\ SubSeq(hv.display, 1, 6) = <<72, 40, 48, 48, 48, 49>>
    /\ SubSeq(hv.display, 63, 67) = <<49, 69, 49, 70, 41>>

(***************************************************************************)
(* C16.  from_str never panics; it returns Err, and no HValue, for every   *)
(* text whose byte length is not 67, that does not start with 'H(', that   *)
(* does not end with ')' or that has a non-hexadecimal character in a      *)
(* digit position; it returns Ok only for texts of that form.              *)
(***************************************************************************)
C16_MalformedIsErr ==
    hv.pc = "parsed" =>
        /\ hv.result.outcome \in {"Ok", "Err"}
        /\ ~WellFormed(hv.text) => hv.result = ParseResult("Err", <<>>)
        /\ hv.result.outcome = "Ok" => WellFormed(hv.text)

C16_Witness ==
    /\ hv.pc = "parsed"
    /\ hv.change = "byte"
    /\ Len(hv.text) = 67
    /\ hv.text[1] = 72 /\ hv.text[2] = 40 /\ hv.text[67] = 41
    /\ hv.text[66] = 103
    /\ hv.result.outcome = "Err"

(***************************************************************************)
(* C17.  eg_h(key, data) is HMAC-SHA-256 with the 32 bytes of the key as   *)
(* key and data as message: for the default (all zero) key and empty data  *)
(* it is H(B613679A0814D9EC772F95D778C35FC5FF1697C493715653C6C712144292C5AD)*)
(* and for the keys and data of RFC 4231 (test cases 1 and 2) it is the    *)
(* HMAC-SHA-256 value published there.                                     *)
(***************************************************************************)
\* "H(B613679A0814D9EC772F95D778C35FC5FF1697C493715653C6C712144292C5AD)".
C17_ExpectedOfDefault ==
    <<72, 40, 66, 54, 49, 51, 54, 55, 57, 65, 48, 56, 49, 52, 68, 57,
      69, 67, 55, 55, 50, 70, 57, 53, 68, 55, 55, 56, 67, 51, 53, 70,
      67, 53, 70, 70, 49, 54, 57, 55, 67, 52, 57, 51, 55, 49, 53, 54,
      53, 51, 67, 54, 67, 55, 49, 50, 49, 52, 52, 50, 57, 50, 67, 53,
      65, 68, 41>>
\* "H(B0344C61D8DB38535CA8AFCEAF0BF12B881DC200C9833DA726E9376C2E32CFF7)".
C17_ExpectedOfRfc4231_1 ==
    <<72, 40, 66, 48, 51, 52, 52, 67, 54, 49, 68, 56, 68, 66, 51, 56,
      53, 51, 53, 67, 65, 56, 65, 70, 67, 69, 65, 70, 48, 66, 70, 49,
      50, 66, 56, 56, 49, 68, 67, 50, 48, 48, 67, 57, 56, 51, 51, 68,
      65, 55, 50, 54, 69, 57, 51, 55, 54, 67, 50, 69, 51, 50, 67, 70,
      70, 55, 41>>
\* "H(5BDCC146BF60754E6A042426089575C75A003F089D2739839DEC58B964EC3843)".
C17_ExpectedOfRfc4231_2 ==
    <<72, 40, 53, 66, 68, 67, 67, 49, 52, 54, 66, 70, 54, 48, 55, 53,
      52, 69, 54, 65, 48, 52, 50, 52, 50, 54, 48, 56, 57, 53, 55, 53,
      67, 55, 53, 65, 48, 48, 51, 70, 48, 56, 57, 68, 50, 55, 51, 57,
      56, 51, 57, 68, 69, 67, 53, 56, 66, 57, 54, 52, 69, 67, 51, 56,
      52, 51, 41>>

C17_Expected(key, data) ==
    IF key = HValue_default /\ data = <<>> THEN C17_ExpectedOfDefault
    ELSE IF key = HKey_rfc4231_1 /\ data = HData_rfc4231_1 THEN C17_ExpectedOfRfc4231_1
    ELSE IF key = HKey_rfc4231_2 /\ data = HData_rfc4231_2 THEN C17_ExpectedOfRfc4231_2
    ELSE <<>>

C17_HIsHmacSha256 ==
    hv.pc = "hashed" =>
        from_str(C17_Expected(hv.x, hv.data)) = ParseResult("Ok", hv.h)

C17_Witness ==
    /\ hv.pc = "hashed"
    /\ hv.x = HValue_default
    /\ hv.data = <<>>
    /\ display_as_ascii(hv.h) = C17_ExpectedOfDefault

(***************************************************************************)
(* NanoVec (nanovec/src/lib.rs, fixed-uint/src/nano_vec.rs): an array of   *)
(* CAPACITY Option<T>.  The elements are the numbers from 1 on (as the     *)
(* NonZero types of the tests) and None is 0.  push and truncate are the   *)
(* same code in both files; pop and len differ and both are modelled.      *)
(***************************************************************************)
\* The largest CAPACITY and the largest element that are run.
MaxCapacity == 3
MaxElem == 2

None == 0
Elems == 1..MaxElem
Capacities == 0..MaxCapacity
\* NanoVec::DEFAULT, NanoVec::new().
NanoVec_DEFAULT(capacity) == [ix \in 1..capacity |-> None]

RECURSIVE len_loop(_, _)
\* The loop of len on the 0-based index ix.
len_loop(a, ix) ==
    IF ix = Len(a) \/ a[ix + 1] = None THEN ix ELSE len_loop(a, ix + 1)

\* NanoVec::len (nanovec).
len(a) == len_loop(a, 0)

RECURSIVE fixed_uint_len_loop(_, _, _)
\* The loop of len (fixed-uint): count the elements until the first None.
fixed_uint_len_loop(a, n, ix) ==
    IF ix > Len(a) THEN n
    ELSE IF a[ix] # None THEN fixed_uint_len_loop(a, n + 1, ix + 1)
    ELSE n

\* NanoVec::len (fixed-uint).
fixed_uint_len(a) == fixed_uint_len_loop(a, 0, 1)

\* What a call leaves: its result, the value it returns and the array.
CallResult(result, value, a) == [result |-> result, value |-> value, a |-> a]

RECURSIVE push_loop(_, _, _)
\* The loop of push from the element at ix on.
push_loop(a, t, ix) ==
    IF ix > Len(a) THEN CallResult("Full", None, a)
    ELSE IF a[ix] = None THEN CallResult("Ok", None, [a EXCEPT ![ix] = t])
    ELSE push_loop(a, t, ix + 1)

\* A push that answers Ok on a full container.
push_full_is_ok(a, t) ==
    LET r == push_loop(a, t, 1)
    IN  IF r.result = "Full" THEN CallResult("Ok", None, a) ELSE r

\* NanoVec::push.
push(a, t) == push_loop(a, t, 1)

RECURSIVE pop_loop(_, _, _)
\* The loop of pop (nanovec): the place of the last Some before the first
\* None, 0 if there is none.
pop_loop(a, prev, ix) ==
    IF ix > Len(a) THEN prev
    ELSE IF a[ix] # None THEN pop_loop(a, ix, ix + 1)
    ELSE prev

\* A pop that takes the first element.
pop_first(a) ==
    IF Len(a) > 0 /\ a[1] # None
    THEN CallResult("Ok", a[1], [a EXCEPT ![1] = None])
    ELSE CallResult("Empty", None, a)

\* NanoVec::pop (nanovec).
pop(a) ==
    LET prev == pop_loop(a, 0, 1)
    IN  IF prev # 0 THEN CallResult("Ok", a[prev], [a EXCEPT ![prev] = None])
        ELSE CallResult("Empty", None, a)

RECURSIVE fixed_uint_pop_loop(_, _)
\* The loop of pop (fixed-uint), over the array in reverse from ix down.
fixed_uint_pop_loop(a, ix) ==
    IF ix < 1 THEN CallResult("Empty", None, a)
    ELSE IF a[ix] # None THEN CallResult("Ok", a[ix], [a EXCEPT ![ix] = None])
    ELSE fixed_uint_pop_loop(a, ix - 1)

\* A pop that looks at the last slot of the array only.
fixed_uint_pop_last_slot(a) ==
    IF Len(a) > 0 /\ a[Len(a)] # None
    THEN CallResult("Ok", a[Len(a)], [a EXCEPT ![Len(a)] = None])
    ELSE CallResult("Empty", None, a)

\* NanoVec::pop (fixed-uint).
fixed_uint_pop(a) == fixed_uint_pop_loop(a, Len(a))

RECURSIVE truncate_loop(_, _)
\* The loop of truncate from the element at ix on.
truncate_loop(a, ix) ==
    IF ix > Len(a) THEN a
    ELSE IF a[ix] # None THEN truncate_loop([a EXCEPT ![ix] = None], ix + 1)
    ELSE a

\* A truncate that clears one element only.
truncate_one(a, resulting_len) ==
    IF resulting_len + 1 <= Len(a) /\ a[resulting_len + 1] # None
    THEN [a EXCEPT ![resulting_len + 1] = None]
    ELSE a

\* NanoVec::truncate: iter_mut().skip(resulting_len).
truncate(a, resulting_len) == truncate_loop(a, resulting_len + 1)

\* The longest source that a constructor is given.
MaxSource == MaxCapacity + 1
\* A source is the answers of its next(), None among them where the
\* iterator is not fused; past them next() answers None.  The elements are
\* of type T (Into::into is the reflexive conversion, as in the tests).
Sources == UNION {[1..n -> Elems \cup {None}] : n \in 0..MaxSource}
\* The sources of try_from_array: arrays of elements.
ArraySources == UNION {[1..n -> Elems] : n \in 0..MaxSource}

\* Iterator::next: the answer to the request at pos (from 1).
Iterator_next(src, pos) == IF pos <= Len(src) THEN src[pos] ELSE None

RECURSIVE try_from_iter_from_fn(_, _, _, _, _)
\* std::array::from_fn with the closure of try_from_iter, from the element
\* at ix on: the array built, end_reached and the requests made.
try_from_iter_from_fn(src, a, ix, pos, end_reached) ==
    IF ix > Len(a) THEN [a |-> a, pos |-> pos, end_reached |-> end_reached]
    ELSE IF ~end_reached
         THEN LET s == Iterator_next(src, pos)
              IN  IF s # None
                  THEN try_from_iter_from_fn(src, [a EXCEPT ![ix] = s], ix + 1, pos + 1, FALSE)
                  ELSE try_from_iter_from_fn(src, [a EXCEPT ![ix] = None], ix + 1, pos + 1, TRUE)
         ELSE try_from_iter_from_fn(src, [a EXCEPT ![ix] = None], ix + 1, pos, TRUE)

\* A try_from_iter that refuses a source of exactly CAPACITY elements.
try_from_iter_full_is_too_large(capacity, src) ==
    LET f == try_from_iter_from_fn(src, NanoVec_DEFAULT(capacity), 1, 1, FALSE)
    IN  IF ~f.end_reached
        THEN CallResult("SourceTooLarge", f.pos - 1, <<>>)
        ELSE CallResult("Ok", f.pos - 1, f.a)

\* NanoVec::try_from_iter; the value is the number of requests made.
try_from_iter(capacity, src) ==
    LET f == try_from_iter_from_fn(src, NanoVec_DEFAULT(capacity), 1, 1, FALSE)
    IN  IF ~f.end_reached /\ Iterator_next(src, f.pos) # None
        THEN CallResult("SourceTooLarge", f.pos, <<>>)
        ELSE CallResult("Ok", IF f.end_reached THEN f.pos - 1 ELSE f.pos, f.a)

\* NanoVec::try_from_array.
try_from_array(capacity, s) == try_from_iter(capacity, s)

RECURSIVE from_iter_from_fn(_, _, _, _, _)
\* std::array::from_fn with the closure of from_iter, from the element at ix
\* on; Fuse::next requests nothing more once the source has answered None.
from_iter_from_fn(src, a, ix, pos, fuse_done) ==
    IF ix > Len(a) THEN [a |-> a, pos |-> pos]
    ELSE IF fuse_done
         THEN from_iter_from_fn(src, [a EXCEPT ![ix] = None], ix + 1, pos, TRUE)
         ELSE LET s == Iterator_next(src, pos)
              IN  from_iter_from_fn(src, [a EXCEPT ![ix] = s], ix + 1, pos + 1, s = None)

RECURSIVE from_iter_no_fuse_from_fn(_, _, _, _)
\* from_fn with iter.next() of the source itself.
from_iter_no_fuse_from_fn(src, a, ix, pos) ==
    IF ix > Len(a) THEN [a |-> a, pos |-> pos]
    ELSE from_iter_no_fuse_from_fn(src, [a EXCEPT ![ix] = Iterator_next(src, pos)], ix + 1, pos + 1)

\* A from_iter without fuse().
from_iter_no_fuse(capacity, src) ==
    LET f == from_iter_no_fuse_from_fn(src, NanoVec_DEFAULT(capacity), 1, 1)
    IN  CallResult("", f.pos - 1, f.a)

\* FromIterator::from_iter (fixed-uint); the value is the number of
\* requests made to the source.
from_iter(capacity, src) ==
    LET f == from_iter_from_fn(src, NanoVec_DEFAULT(capacity), 1, 1, FALSE)
    IN  CallResult("", f.pos - 1, f.a)

\* self.0[ix]: the element, or the panic of an index out of bounds.
Index_0(a, ix) ==
    IF ix < Len(a) THEN CallResult("Some", a[ix + 1], a) ELSE CallResult("panic", None, a)

\* Option::as_ref, Option::as_mut of an indexed element.
Option_as_ref(r) == IF r.result = "Some" /\ r.value = None THEN CallResult("None", None, r.a) ELSE r

\* An opt_ref_at that compares with ix <= CAPACITY.
opt_ref_at_inclusive(a, ix) ==
    IF ix <= Len(a) THEN Option_as_ref(Index_0(a, ix)) ELSE CallResult("None", None, a)

\* NanoVec::opt_ref_at.
opt_ref_at(a, ix) ==
    IF ix < Len(a) THEN Option_as_ref(Index_0(a, ix)) ELSE CallResult("None", None, a)

\* NanoVec::opt_mut_at.
opt_mut_at(a, ix) ==
    IF ix < Len(a) THEN Option_as_ref(Index_0(a, ix)) ELSE CallResult("None", None, a)

\* if let Some(mut_elem) = nv.opt_mut_at(ix) { *mut_elem = t }
write_through_opt_mut_at(a, ix, t) ==
    LET r == opt_mut_at(a, ix)
    IN  IF r.result = "Some" THEN CallResult("Some", r.value, [a EXCEPT ![ix + 1] = t])
        ELSE r

\* NanoVec::is_empty (nanovec).
is_empty(a) == Len(a) = 0 \/ a[1] = None

NoCall == [op |-> "none", arg |-> 0, result |-> "", value |-> None, before |-> <<>>]

InitNanoVec ==
    /\ ContestAtRest
    /\ es = Idle
    /\ hv = Idle
    /\ nv \in {[pc |-> "ready", a |-> NanoVec_DEFAULT(c), last |-> NoCall] : c \in Capacities}

\* What a call of op with arg, answering r, leaves of the NanoVec.
AfterCall(op, arg, r) ==
    [pc |-> "ready", a |-> r.a,
     last |-> [op |-> op, arg |-> arg, result |-> r.result, value |-> r.value,
               before |-> nv.a]]

Push ==
    /\ nv.pc = "ready"
    /\ \E t \in Elems : nv' = AfterCall("push", t, push(nv.a, t))
    /\ UNCHANGED <<pc, inp, out, ce, tamper, vlimit, vresult, scaled, es, hv>>

Pop ==
    /\ nv.pc = "ready"
    /\ nv' = AfterCall("pop", 0, pop(nv.a))
    /\ UNCHANGED <<pc, inp, out, ce, tamper, vlimit, vresult, scaled, es, hv>>

PopFixedUint ==
    /\ nv.pc = "ready"
    /\ nv' = AfterCall("fixed_uint_pop", 0, fixed_uint_pop(nv.a))
    /\ UNCHANGED <<pc, inp, out, ce, tamper, vlimit, vresult, scaled, es, hv>>

Truncate ==
    /\ nv.pc = "ready"
    /\ \E resulting_len \in 0..(Len(nv.a) + 1) :
        nv' = AfterCall("truncate", resulting_len,
                        CallResult("", None, truncate(nv.a, resulting_len)))
    /\ UNCHANGED <<pc, inp, out, ce, tamper, vlimit, vresult, scaled, es, hv>>

\* A constructor is an associated function: it is called where new() would
\* be, for a vector of the same CAPACITY, and answers a new vector, or none
\* when it fails.
Constructed(op, src, r) ==
    AfterCall(op, src, IF r.result = "SourceTooLarge" THEN [r EXCEPT !.a = nv.a] ELSE r)

TryFromIter ==
    /\ nv.pc = "ready"
    /\ nv.last = NoCall
    /\ \E src \in Sources :
        nv' = Constructed("try_from_iter", src, try_from_iter(Len(nv.a), src))
    /\ UNCHANGED <<pc, inp, out, ce, tamper, vlimit, vresult, scaled, es, hv>>

TryFromArray ==
    /\ nv.pc = "ready"
    /\ nv.last = NoCall
    /\ \E s \in ArraySources :
        nv' = Constructed("try_from_array", s, try_from_array(Len(nv.a), s))
    /\ UNCHANGED <<pc, inp, out, ce, tamper, vlimit, vresult, scaled, es, hv>>

FromIter ==
    /\ nv.pc = "ready"
    /\ nv.last = NoCall
    /\ \E src \in Sources :
        nv' = Constructed("from_iter", src, from_iter(Len(nv.a), src))
    /\ UNCHANGED <<pc, inp, out, ce, tamper, vlimit, vresult, scaled, es, hv>>

OptRefAt ==
    /\ nv.pc = "ready"
    /\ \E ix \in 0..(Len(nv.a) + 1) : nv' = AfterCall("opt_ref_at", ix, opt_ref_at(nv.a, ix))
    /\ UNCHANGED <<pc, inp, out, ce, tamper, vlimit, vresult, scaled, es, hv>>

OptMutAt ==
    /\ nv.pc = "ready"
    /\ \E ix \in 0..(Len(nv.a) + 1), t \in Elems :
        nv' = AfterCall("opt_mut_at", <<ix, t>>, write_through_opt_mut_at(nv.a, ix, t))
    /\ UNCHANGED <<pc, inp, out, ce, tamper, vlimit, vresult, scaled, es, hv>>

NextNanoVec ==
    \/ Push
    \/ Pop
    \/ PopFixedUint
    \/ Truncate
    \/ TryFromIter
    \/ TryFromArray
    \/ FromIter
    \/ OptRefAt
    \/ OptMutAt

SpecNanoVec == InitNanoVec /\ [][NextNanoVec]_vars

\* The number of elements stored: the places before the first None.
StoredCount(a) == Cardinality({i \in 1..Len(a) : \A j \in 1..i : a[j] # None})
\* Both len() agree with it.
LenIs(a, n) == len(a) = n /\ fixed_uint_len(a) = n
\* The call that led to this state.
LastCall(op) == nv.pc = "ready" /\ nv.last.op = op

(***************************************************************************)
(* C18.  push on a vector of length n < CAPACITY returns Ok, leaves the    *)
(* elements 0..n-1 unchanged, stores the new element at index n and makes  *)
(* len() = n + 1; on a vector of length CAPACITY (also CAPACITY = 0) it    *)
(* returns Err(Full) and leaves the vector unchanged.                      *)
(***************************************************************************)
C18_Push ==
    LastCall("push") =>
        LET n == StoredCount(nv.last.before)
        IN  IF n < Len(nv.a)
            THEN /\ nv.last.result = "Ok"
                 /\ \A i \in 1..n : nv.a[i] = nv.last.before[i]
                 /\ nv.a[n + 1] = nv.last.arg
                 /\ LenIs(nv.a, n + 1)
            ELSE /\ nv.last.result = "Full"
                 /\ nv.a = nv.last.before

\* A push that fills the last place, and then a push on the full vector.
C18_Witness ==
    /\ LastCall("push")
    /\ Len(nv.a) = MaxCapacity
    /\ StoredCount(nv.last.before) = MaxCapacity
    /\ nv.last.result = "Full"
    /\ nv.a[1] # nv.a[MaxCapacity]

RECURSIVE PushAll(_, _, _)
\* The vector after the pushes of elems[ix], elems[ix + 1], ...
PushAll(a, elems, ix) ==
    IF ix > Len(elems) THEN a ELSE PushAll(push(a, elems[ix]).a, elems, ix + 1)

RECURSIVE PopAll(_, _, _)
\* The results of count pops, nanovec's or fixed-uint's, in order.
PopAll(a, count, fixed_uint) ==
    IF count = 0 THEN <<>>
    ELSE LET r == IF fixed_uint THEN fixed_uint_pop(a) ELSE pop(a)
         IN  <<[result |-> r.result, value |-> r.value]>> \o PopAll(r.a, count - 1, fixed_uint)

\* CAPACITY pushes of elems, then CAPACITY + 1 pops: the elements come back
\* in reverse order and the last pop is Err(Empty).
ReversePushOrder(elems, fixed_uint) ==
    LET capacity == Len(elems)
        pops == PopAll(PushAll(NanoVec_DEFAULT(capacity), elems, 1), capacity + 1, fixed_uint)
    IN  /\ \A i \in 1..capacity :
               pops[i] = [result |-> "Ok", value |-> elems[capacity + 1 - i]]
        /\ pops[capacity + 1].result = "Empty"

(***************************************************************************)
(* C19.  pop on a vector of length n > 0 returns Ok of the element at      *)
(* index n - 1, leaves the elements 0..n-2 unchanged and makes len() =     *)
(* n - 1; on an empty vector it returns Err(Empty) and leaves the vector   *)
(* unchanged.  After CAPACITY pushes, CAPACITY pops return the elements in *)
(* reverse push order and the next pop returns Err(Empty).  Both for the   *)
(* pop of nanovec and the pop of fixed-uint.                               *)
(***************************************************************************)
C19_Pop ==
    /\ (LastCall("pop") \/ LastCall("fixed_uint_pop")) =>
            LET n == StoredCount(nv.last.before)
            IN  IF n > 0
                THEN /\ nv.last.result = "Ok"
                     /\ nv.last.value = nv.last.before[n]
                     /\ \A i \in 1..(n - 1) : nv.a[i] = nv.last.before[i]
                     /\ LenIs(nv.a, n - 1)
                ELSE /\ nv.last.result = "Empty"
                     /\ nv.a = nv.last.before
    /\ (nv.pc = "ready" /\ nv.last = NoCall) =>
            \A elems \in [1..Len(nv.a) -> Elems] :
                ReversePushOrder(elems, FALSE) /\ ReversePushOrder(elems, TRUE)

\* A pop of nanovec that takes the last of several different elements.
C19_Witness ==
    /\ LastCall("pop")
    /\ StoredCount(nv.last.before) = MaxCapacity
    /\ nv.last.result = "Ok"
    /\ nv.last.value # nv.last.before[1]

(***************************************************************************)
(* C20.  truncate(k) on a vector of length n has no effect when k >= n,    *)
(* also when k >= CAPACITY and when k = CAPACITY + 1; when k < n it makes  *)
(* len() = k and leaves the elements 0..k-1 unchanged.                     *)
(***************************************************************************)
C20_Truncate ==
    LastCall("truncate") =>
        LET n == StoredCount(nv.last.before)
            k == nv.last.arg
        IN  IF k >= n
            THEN nv.a = nv.last.before
            ELSE /\ LenIs(nv.a, k)
                 /\ \A i \in 1..k : nv.a[i] = nv.last.before[i]

\* A truncate that removes more than one element and keeps one.
C20_Witness ==
    /\ LastCall("truncate")
    /\ StoredCount(nv.last.before) = MaxCapacity
    /\ nv.last.arg = 1
    /\ StoredCount(nv.a) = 1

\* The number of elements a source yields: its answers before the first None.
Yielded(src) == StoredCount(src)

(***************************************************************************)
(* C21.  try_from_iter and try_from_array return Err(SourceTooLarge)       *)
(* exactly when the source yields more than CAPACITY elements; otherwise   *)
(* they return Ok of a vector whose len() is the number of elements        *)
(* yielded, with the i-th yielded element at index i and None at every     *)
(* later index; also for exactly CAPACITY elements and for CAPACITY = 0.   *)
(***************************************************************************)
C21_TryFromIter ==
    (LastCall("try_from_iter") \/ LastCall("try_from_array")) =>
        LET src == nv.last.arg
            capacity == Len(nv.last.before)
        IN  /\ nv.last.result = "SourceTooLarge" <=> Yielded(src) > capacity
            /\ nv.last.result # "SourceTooLarge" =>
                /\ nv.last.result = "Ok"
                /\ Len(nv.a) = capacity
                /\ LenIs(nv.a, Yielded(src))
                /\ \A i \in 1..capacity :
                       nv.a[i] = IF i <= Yielded(src) THEN src[i] ELSE None

\* A source of exactly CAPACITY different elements.
C21_Witness ==
    /\ LastCall("try_from_iter")
    /\ Len(nv.a) = MaxCapacity
    /\ Len(nv.last.arg) = MaxCapacity
    /\ Yielded(nv.last.arg) = MaxCapacity
    /\ nv.last.result = "Ok"
    /\ nv.a[1] # nv.a[2]

(***************************************************************************)
(* C22.  opt_ref_at(ix) returns Some of the element at ix when ix < len()  *)
(* and None for every ix >= len(), also for ix >= CAPACITY, and does not   *)
(* panic; opt_mut_at returns Some for the same indices, and a write        *)
(* through it changes that element only and never changes len().           *)
(***************************************************************************)
C22_OptRefAt ==
    /\ LastCall("opt_ref_at") =>
            LET n == StoredCount(nv.last.before)
                ix == nv.last.arg
            IN  /\ nv.a = nv.last.before
                /\ IF ix < n
                   THEN nv.last.result = "Some" /\ nv.last.value = nv.last.before[ix + 1]
                   ELSE nv.last.result = "None"
    /\ LastCall("opt_mut_at") =>
            LET n == StoredCount(nv.last.before)
                ix == nv.last.arg[1]
            IN  /\ nv.last.result = (IF ix < n THEN "Some" ELSE "None")
                /\ nv.last.result = opt_ref_at(nv.last.before, ix).result
                /\ nv.a = IF ix < n THEN [nv.last.before EXCEPT ![ix + 1] = nv.last.arg[2]]
                          ELSE nv.last.before
                /\ LenIs(nv.a, n)

\* opt_ref_at(CAPACITY) on a full vector.
C22_Witness ==
    /\ LastCall("opt_ref_at")
    /\ Len(nv.a) = MaxCapacity
    /\ StoredCount(nv.a) = MaxCapacity
    /\ nv.last.arg = MaxCapacity
    /\ nv.last.result = "None"

\* The smaller of two numbers.
Min(m, n) == IF m <= n THEN m ELSE n

(***************************************************************************)
(* C23.  from_iter never fails: from a source yielding n elements it       *)
(* builds a vector holding the first min(n, CAPACITY) elements in source   *)
(* order, with len() = min(n, CAPACITY), and it requests at most CAPACITY  *)
(* elements from the source.                                               *)
(***************************************************************************)
C23_FromIter ==
    LastCall("from_iter") =>
        LET src == nv.last.arg
            capacity == Len(nv.last.before)
            held == Min(Yielded(src), capacity)
        IN  /\ nv.last.result = ""
            /\ Len(nv.a) = capacity
            /\ LenIs(nv.a, held)
            /\ \A i \in 1..capacity : nv.a[i] = IF i <= held THEN src[i] ELSE None
            /\ nv.last.value <= capacity

\* A source that answers an element again after its first None.
C23_Witness ==
    /\ LastCall("from_iter")
    /\ Len(nv.a) = MaxCapacity
    /\ Len(nv.last.arg) > MaxCapacity
    /\ Yielded(nv.last.arg) = 1
    /\ nv.last.arg[3] # None
    /\ StoredCount(nv.a) = 1

\* The ciphertexts of a sequence of (ciphertext, nonce) pairs.
CiphertextsOf(pairs) == [i \in 1..Len(pairs) |-> pairs[i].ct]

(***************************************************************************)
(* C24.  For the non-empty sequence of (ciphertext, nonce) pairs that new  *)
(* hands to sum_selection_nonce_vector, the ciphertext it returns is the   *)
(* result of sum_selection_vector on the ciphertexts alone; so the         *)
(* combined ciphertext that the verifier recomputes from the selection new *)
(* returned is the one the selection limit proof was built for.            *)
(***************************************************************************)
C24_SumsAgree ==
    /\ (NewEnded /\ out.sum_arg_len >= 1) =>
            LET recomputed == sum_selection_vector(CiphertextsOf(out.selection_and_nonce))
            IN  /\ ~recomputed.panic
                /\ ~out.combined.panic
                /\ recomputed.ct = out.combined.ct
    /\ (NewEnded /\ out.outcome = "ok") =>
            LET recomputed == sum_selection_vector(out.ce.selection)
            IN  /\ ~recomputed.panic
                /\ recomputed.ct.alpha = out.ce.proof_selection_limit.alpha
                /\ recomputed.ct.beta = out.ce.proof_selection_limit.beta

\* A contest of several different ciphertexts was built.
C24_Witness ==
    /\ out.outcome = "ok"
    /\ out.sum_arg_len = 3
    /\ out.ce.selection[1] # out.ce.selection[2]
    /\ out.combined.ct.beta # out.ce.selection[1].beta
    /\ out.combined.ct.alpha # out.ce.selection[1].alpha

(***************************************************************************)
(* C25.  The result of verify does not depend on the contest_hash field:   *)
(* a ContestEncrypted that differs from the one new returned in its        *)
(* contest_hash only gets, for the same selection_limit, the verify result *)
(* of the one new returned.                                                *)
(***************************************************************************)
C25_VerifyIgnoresContestHash ==
    (Verified /\ tamper.kind = "contest_hash") =>
        /\ ce # out.ce
        /\ [ce EXCEPT !.contest_hash = out.ce.contest_hash] = out.ce
        /\ vresult = verify(out.ce, vlimit)

\* A record with the contest hash of no selection verifies as true.
C25_Witness ==
    /\ Verified
    /\ tamper.kind = "contest_hash"
    /\ ce.contest_hash = contest_hash(inp.contest_index, <<>>)
    /\ Len(ce.selection) >= 2
    /\ vresult = "true"

\* The calls of new with the arguments of the call made and any csprng
\* state, in any build, that return.
CallsWithAnyCsprng ==
    {r \in {ContestEncrypted_new(rnd, overflow_checks, strict, inp.primary_nonce,
                inp.selection_limit, inp.contest_index, inp.vote) :
              rnd \in CsprngStates, overflow_checks \in BOOLEAN, strict \in BOOLEAN} :
        r.outcome = "ok"}

(***************************************************************************)
(* C26.  The selection ciphertexts and the contest_hash that new returns   *)
(* are determined by the header, primary_nonce, contest_index and pt_vote: *)
(* a call with the same values of these and any csprng state returns the   *)
(* same selection and the same contest_hash (the proofs may differ).       *)
(* Stated of the state in which new has just returned.                     *)
(***************************************************************************)
C26_SelectionIndependentOfCsprng ==
    (NewEnded /\ out.outcome = "ok") =>
        /\ out \in CallsWithAnyCsprng
        /\ \A r \in CallsWithAnyCsprng :
            /\ r.ce.selection = out.ce.selection
            /\ r.ce.contest_hash = out.ce.contest_hash

\* A call with another csprng state returns other proofs.
C26_Witness ==
    /\ pc = "built"
    /\ Untampered
    /\ Len(out.ce.selection) >= 2
    /\ \E r \in CallsWithAnyCsprng :
        /\ r.ce.proof_selection_limit # out.ce.proof_selection_limit
        /\ r.ce.proof_ballot_correctness # out.ce.proof_ballot_correctness

\* The number of occupied slots of the storage array.
Occupied(a) == Cardinality({i \in 1..Len(a) : a[i] # None})

(***************************************************************************)
(* C27.  After any sequence of new, try_from_iter, from_iter, push, pop,   *)
(* truncate and writes through opt_mut_at, the storage array has no        *)
(* occupied slot after an empty slot, so len() is the number of stored     *)
(* elements and is_empty() holds exactly when len() = 0.                   *)
(***************************************************************************)
C27_OccupiedSlotsAreLeading ==
    nv.pc = "ready" =>
        /\ \A i \in 1..Len(nv.a) : \A j \in 1..i : nv.a[i] # None => nv.a[j] # None
        /\ LenIs(nv.a, Occupied(nv.a))
        /\ is_empty(nv.a) <=> len(nv.a) = 0

\* A full vector truncated to one element.
C27_Witness ==
    /\ LastCall("truncate")
    /\ Len(nv.a) = MaxCapacity
    /\ Occupied(nv.last.before) = MaxCapacity
    /\ Occupied(nv.a) = 1
    /\ ~is_empty(nv.a)

(***************************************************************************)
(* C29.  On every state reachable by the NanoVec operations, the pop of    *)
(* fixed-uint (from the back to the last occupied slot) and the pop of     *)
(* nanovec (from the front to the last slot of the leading occupied run)   *)
(* return the same result and leave the same contents.                     *)
(***************************************************************************)
C29_PopsAgree ==
    nv.pc = "ready" =>
        LET front == pop(nv.a)
            back == fixed_uint_pop(nv.a)
        IN  /\ front.result = back.result
            /\ front.value = back.value
            /\ front.a = back.a
            /\ LastCall("pop") => nv.a = fixed_uint_pop(nv.last.before).a
            /\ LastCall("fixed_uint_pop") => nv.a = pop(nv.last.before).a

\* A vector with an occupied slot and empty slots behind it, after a pop.
C29_Witness ==
    /\ LastCall("fixed_uint_pop")
    /\ Len(nv.a) = MaxCapacity
    /\ Occupied(nv.last.before) = MaxCapacity - 1
    /\ nv.last.result = "Ok"
    /\ pop(nv.a).result = "Ok"

\* A text with the lowercase letters a-f replaced by A-F.
Uppercased(text) ==
    [i \in 1..Len(text) |-> IF text[i] >= 97 /\ text[i] <= 102 THEN text[i] - 32 ELSE text[i]]
\* Whether a text has a lowercase digit.
HasLowercaseDigit(text) == \E i \in 1..Len(text) : text[i] >= 97 /\ text[i] <= 102

(***************************************************************************)
(* C28.  from_str accepts the lowercase hex digits a-f as well as the      *)
(* uppercase ones: a well-formed text with lowercase digits parses to the  *)
(* HValue of its uppercased form, so the parsed value displayed again is   *)
(* the text with its hex digits uppercased, and is the text itself exactly *)
(* when the text has no lowercase digit.                                   *)
(***************************************************************************)
C28_LowercaseAccepted ==
    /\ (hv.pc = "parsed" /\ WellFormed(hv.text)) =>
            /\ hv.result.outcome = "Ok"
            /\ hv.result = from_str(Uppercased(hv.text))
    /\ hv.pc = "displayed_again" =>
            /\ WellFormed(hv.text)
            /\ hv.again = Uppercased(hv.text)
            /\ hv.again = hv.text <=> ~HasLowercaseDigit(hv.text)

\* A text with several lowercase digits, parsed and displayed again.
C28_Witness ==
    /\ hv.pc = "displayed_again"
    /\ hv.change = "lowercase"
    /\ hv.x = HValue_of_test
    /\ SubSeq(hv.text, 23, 26) = <<48, 97, 48, 98>>
    /\ SubSeq(hv.again, 23, 26) = <<48, 65, 48, 66>>

(***************************************************************************)
(* display_as_ascii call by call: ArrayAscii::from_fn calls the closure    *)
(* for the output indices 0, 1, ... in order; hv holds the state variable  *)
(* of the closure, the number of calls made, the text written and whether  *)
(* the End branch was executed.                                            *)
(***************************************************************************)
InitDisplay ==
    /\ ContestAtRest
    /\ es = Idle
    /\ nv = Idle
    /\ hv \in {[pc |-> "displaying", x |-> h, state |-> State_Prefix(0), out_ix |-> 0,
                done |-> <<>>, end_branch |-> FALSE] : h \in HValues}

\* The closure is called for the output index out_ix.
ClosureCall ==
    /\ hv.pc = "displaying"
    /\ hv.out_ix < HVALUE_SERIALIZE_LEN
    /\ LET r == display_closure(hv.x, hv.state)
       IN  hv' = [hv EXCEPT !.state = r.state,
                            !.out_ix = @ + 1,
                            !.done = Append(@, r.out),
                            !.end_branch = @ \/ hv.state.tag = "End"]
    /\ UNCHANGED <<pc, inp, out, ce, tamper, vlimit, vresult, scaled, es, nv>>

\* from_fn returns the array.
FromFnReturns ==
    /\ hv.pc = "displaying"
    /\ hv.out_ix = HVALUE_SERIALIZE_LEN
    /\ hv' = [hv EXCEPT !.pc = "displayed"]
    /\ UNCHANGED <<pc, inp, out, ce, tamper, vlimit, vresult, scaled, es, nv>>

NextDisplay ==
    \/ ClosureCall
    \/ FromFnReturns

SpecDisplay == InitDisplay /\ [][NextDisplay]_vars

\* The state the walk is in after k calls of the closure.
WalkState(k) ==
    IF k < 2 THEN State_Prefix(k)
    ELSE IF k < 66 THEN State_Nibble(k % 2 = 1, (k - 2) \div 2)
    ELSE IF k = 66 THEN State_Suffix(0)
    ELSE State_End

(***************************************************************************)
(* C30.  In display_as_ascii the formatter state walks Prefix(0),          *)
(* Prefix(1), then for each byte index 0..31 the upper nibble state and    *)
(* the lower nibble state, then Suffix(0), and becomes End only after the  *)
(* 67th and last output position: the End branch is never executed.        *)
(***************************************************************************)
C30_EndBranchNeverRuns ==
    /\ hv.out_ix <= 67
    /\ hv.state = WalkState(hv.out_ix)
    /\ hv.state.tag = "End" <=> hv.out_ix = 67
    /\ ~hv.end_branch
    /\ Len(hv.done) = hv.out_ix
    /\ hv.pc = "displayed" => hv.out_ix = 67 /\ hv.done = display_as_ascii(hv.x)

\* The whole text of a value was written and the state is End.
C30_Witness ==
    /\ hv.pc = "displayed"
    /\ hv.x = HValue_of_test
    /\ hv.state = State_End
    /\ hv.out_ix = HVALUE_SERIALIZE_LEN

====
